---------------------------- MODULE Spec2Model ----------------------------
(***************************************************************************)
(* serde-metaform: the "Form + JSON" encoder.                              *)
(*                                                                         *)
(* Text is a sequence of Unicode code points (integers); the sink holds    *)
(* a sequence of bytes (integers, all ASCII once percent-encoded).         *)
(* What a call does to the sink is an effect [chunks, err]: the chunks it  *)
(* hands to the sink's write_str, in order, and the error it returns       *)
(* (kind "Ok" when none) if every write is accepted.  Rust's `?` returns   *)
(* at the first error: Then(a, b) does b only when a returned Ok, and      *)
(* Apply stops at the first chunk the sink rejects.                        *)
(***************************************************************************)
EXTENDS Integers, Sequences, FiniteSets, TLC

\* ------------------------------------------------------------------ bounds
\* Most pairs a root map or record holds.
MaxPairs == 2
\* Capacity (bytes) of the bounded sink.
MaxCap == 6
\* Deepest nesting of the values given to the JSON sub-encoder on its own.
MaxDepth == 2

\* ------------------------------------------------------------------ errors
OkE == [kind |-> "Ok", got |-> ""]
\* impl From<std::fmt::Error> for Error
FmtE == [kind |-> "Fmt", got |-> ""]
top_level_must_be_object(got) == [kind |-> "NotAnObject", got |-> got]
\* The key encoder built with the root's error constructor.
key_error_as_root_error(got) == [kind |-> "NotAnObject", got |-> got]

key_must_be_string(got) == [kind |-> "KeyMustBeAString", got |-> got]
\* A non-finite float key reported like any other key that is no string.
float_key_reported_as_string == [kind |-> "KeyMustBeAString", got |-> "f64"]

float_key_must_be_finite == [kind |-> "FloatKeyMustBeFinite", got |-> ""]
\* serde::ser::Error::custom
custom(msg) == [kind |-> "Message", got |-> msg]

\* ------------------------------------------------------------------ effects
\* Ok(()) with nothing written.
Nothing == [chunks |-> <<>>, err |-> OkE]
\* One write_str(s) on the sink.
Wr(s) == [chunks |-> <<s>>, err |-> OkE]
\* Err(e), nothing written.
Raise(e) == [chunks |-> <<>>, err |-> e]
\* a; b with no `?`: b runs whatever a returned, and the last result is kept.
Then_without_question_mark(a, b) ==
    [chunks |-> a.chunks \o b.chunks, err |-> IF b.err = OkE THEN a.err ELSE b.err]

\* a?; b
Then(a, b) ==
    IF a.err = OkE THEN [chunks |-> a.chunks \o b.chunks, err |-> b.err] ELSE a

RECURSIVE ThenAll(_)
\* e1?; e2?; ...; en
ThenAll(effects) ==
    IF effects = <<>> THEN Nothing
    ELSE Then(Head(effects), ThenAll(Tail(effects)))

\* ------------------------------------------------------------------ the sink
\* The destination is [buf, bounded, cap, err]: buf is what it holds, a bounded
\* sink has a fixed capacity (an unbounded one is a String), err is the first
\* error of the encode.
IsOk(w) == w.err = OkE

\* W::write_str of the destination: a String appends; a fixed-capacity sink
\* rejects a chunk that does not fit and keeps what it holds.
Sink_write_str(w, s) ==
    IF ~IsOk(w) THEN w
    ELSE IF w.bounded /\ Len(w.buf) + Len(s) > w.cap
         THEN [w EXCEPT !.err = FmtE]
         ELSE [w EXCEPT !.buf = w.buf \o s]

RECURSIVE WriteChunks_keeps_going(_, _, _)
\* A run of writes that goes on after the sink has rejected one.
WriteChunks_keeps_going(w, chunks, i) ==
    IF i > Len(chunks) THEN w
    ELSE IF w.bounded /\ Len(w.buf) + Len(chunks[i]) > w.cap
         THEN WriteChunks_keeps_going([w EXCEPT !.err = FmtE], chunks, i + 1)
         ELSE WriteChunks_keeps_going([w EXCEPT !.buf = w.buf \o chunks[i]], chunks, i + 1)

RECURSIVE WriteChunks(_, _, _)
WriteChunks(w, chunks, i) ==
    IF i > Len(chunks) \/ ~IsOk(w) THEN w
    ELSE WriteChunks(Sink_write_str(w, chunks[i]), chunks, i + 1)

\* The sink after a call with the given effect.
Apply(w, effect) ==
    LET w1 == WriteChunks(w, effect.chunks, 1)
    IN  IF IsOk(w1) THEN [w1 EXCEPT !.err = effect.err] ELSE w1

\* ------------------------------------------------------------------ literals
AMP == 38
EQ == 61
PERCENT == 37
QUOTE_CH == 34
BACKSLASH == 92
SOLIDUS_CH == 47
NULL_LIT == <<110, 117, 108, 108>>
TRUE_LIT == <<116, 114, 117, 101>>
FALSE_LIT == <<102, 97, 108, 115, 101>>
COLON == <<37, 51, 65>>
QUOTE == <<37, 50, 50>>
COMMA == <<37, 50, 67>>
LEFT_BRACKET == <<37, 55, 66>>
RIGHT_BRACKET == <<37, 55, 68>>
LEFT_SQ_BRACKET == <<37, 53, 66>>
RIGHT_SQ_BRACKET == <<37, 53, 68>>
REVERSE_SOLIDUS == <<37, 53, 67>>
SOLIDUS == <<37, 50, 70>>

\* ------------------------------------------------------------------ numbers
Digit(d) == 48 + d

RECURSIVE DecDigits(_)
DecDigits(n) ==
    IF n < 10 THEN <<Digit(n)>> ELSE DecDigits(n \div 10) \o <<Digit(n % 10)>>

\* itoa::Buffer::format
Itoa(n) == IF n < 0 THEN <<45>> \o DecDigits(0 - n) ELSE DecDigits(n)

\* ryu::Buffer::format_finite for a float given in tenths (tenths / 10):
\* the shortest decimal that round-trips, always with a fractional part.
Ryu(tenths) ==
    LET a == IF tenths < 0 THEN 0 - tenths ELSE tenths
        sign == IF tenths < 0 THEN <<45>> ELSE <<>>
    IN  sign \o DecDigits(a \div 10) \o <<46>> \o <<Digit(a % 10)>>

\* ------------------------------------------------------------------ percent-encoding
RECURSIVE Utf8(_)
\* str::as_bytes: UTF-8 of a text of code points below 0x800.
Utf8(s) ==
    IF s = <<>> THEN <<>>
    ELSE IF Len(s) = 1
         THEN IF s[1] < 128 THEN s ELSE <<192 + (s[1] \div 64), 128 + (s[1] % 64)>>
         ELSE LET mid == Len(s) \div 2
              IN  Utf8(SubSeq(s, 1, mid)) \o Utf8(SubSeq(s, mid + 1, Len(s)))

\* An encode set that leaves "=" and "&" as they are.
InEncodeSet_keeps_separators(b) ==
    ~(\/ b \in 48..57
      \/ b \in 65..90
      \/ b \in 97..122
      \/ b \in {45, 46, 95, 126, 61, 38})

\* FORM_URLENCODING_ENCODE_SET: NON_ALPHANUMERIC minus `-`, `.`, `_`, `~`.
InEncodeSet(b) ==
    ~ \/ (b >= 48 /\ b <= 57)
      \/ (b >= 65 /\ b <= 90)
      \/ (b >= 97 /\ b <= 122)
      \/ b = 45
      \/ b = 46
      \/ b = 95
      \/ b = 126

HexDigit(h) == IF h < 10 THEN 48 + h ELSE 55 + h

\* percent_encoding::percent_encode_byte
PercentTriplet(b) == <<PERCENT, HexDigit(b \div 16), HexDigit(b % 16)>>

RECURSIVE PlainRun(_)
\* Length of the leading run of bytes outside the encode set.
PlainRun(bytes) ==
    IF bytes = <<>> \/ InEncodeSet(Head(bytes)) THEN 0
    ELSE 1 + PlainRun(Tail(bytes))

RECURSIVE PercentEncodeChunks(_)
\* The chunks percent_encoding::PercentEncode yields: one "%XX" per encoded
\* byte, one slice per maximal run of bytes left alone.
PercentEncodeChunks(bytes) ==
    IF bytes = <<>> THEN <<>>
    ELSE IF InEncodeSet(Head(bytes))
         THEN <<PercentTriplet(Head(bytes))>> \o PercentEncodeChunks(Tail(bytes))
         ELSE LET n == PlainRun(bytes)
              IN  <<SubSeq(bytes, 1, n)>>
                  \o PercentEncodeChunks(SubSeq(bytes, n + 1, Len(bytes)))

\* impl Write for PercentEncoding: encoded.try_for_each(|s| self.w.write_str(s))
PercentEncoding_write_str(s) ==
    [chunks |-> PercentEncodeChunks(Utf8(s)), err |-> OkE]

PercentEncoding_write_null == Wr(NULL_LIT)

\* write_bool spelling the booleans with a capital letter.
PercentEncoding_write_bool_capitalised(value) ==
    IF value THEN Wr(<<84, 114, 117, 101>>) ELSE Wr(<<70, 97, 108, 115, 101>>)

PercentEncoding_write_bool(value) == IF value THEN Wr(TRUE_LIT) ELSE Wr(FALSE_LIT)

PercentEncoding_write_integer(value) == Wr(Itoa(value))

\* WWrite::write_float (the default: PercentEncoding does not override it)
PercentEncoding_write_float(tenths) == PercentEncoding_write_str(Ryu(tenths))

write_colon == Wr(COLON)
write_quote == Wr(QUOTE)
write_comma == Wr(COMMA)
write_left_bracket == Wr(LEFT_BRACKET)
write_right_bracket == Wr(RIGHT_BRACKET)
write_left_sq_bracket == Wr(LEFT_SQ_BRACKET)
write_right_sq_bracket == Wr(RIGHT_SQ_BRACKET)

RECURSIVE ByteArrayItems(_, _)
\* value.iter().try_for_each(..) of write_byte_array
ByteArrayItems(value, is_first) ==
    IF value = <<>> THEN Nothing
    ELSE ThenAll(<<IF ~is_first THEN write_comma ELSE Nothing,
                   PercentEncoding_write_integer(Head(value)),
                   ByteArrayItems(Tail(value), FALSE)>>)

\* write_byte_array writing the bytes as one quoted string.
write_byte_array_as_string(value) ==
    ThenAll(<<write_quote, PercentEncoding_write_str(value), write_quote>>)

\* WWrite::write_byte_array
write_byte_array(value) ==
    ThenAll(<<write_left_sq_bracket, ByteArrayItems(value, TRUE), write_right_sq_bracket>>)

\* ------------------------------------------------------------------ JSON escaping
\* json_escape: the characters escape_str escapes.
NeedsEscape(c) == c = QUOTE_CH \/ c = BACKSLASH \/ c < 32

\* The escape sequence of c, without its leading backslash.
EscapeBody(c) ==
    CASE c = QUOTE_CH -> <<QUOTE_CH>>
      [] c = BACKSLASH -> <<BACKSLASH>>
      [] c = 8 -> <<98>>
      [] c = 9 -> <<116>>
      [] c = 10 -> <<110>>
      [] c = 12 -> <<102>>
      [] c = 13 -> <<114>>
      [] OTHER -> <<117, 48, 48, HexDigit(c \div 16), HexDigit(c % 16)>>

RECURSIVE LiteralRun(_)
LiteralRun(s) ==
    IF s = <<>> \/ NeedsEscape(Head(s)) THEN 0 ELSE 1 + LiteralRun(Tail(s))

RECURSIVE escape_str(_)
\* The tokens of json_escape::token::escape_str: Literal spans and Escaped
\* sequences (backslash first).
escape_str(s) ==
    IF s = <<>> THEN <<>>
    ELSE IF NeedsEscape(Head(s))
         THEN <<[escaped |-> TRUE, text |-> <<BACKSLASH>> \o EscapeBody(Head(s))]>>
              \o escape_str(Tail(s))
         ELSE LET n == LiteralRun(s)
              IN  <<[escaped |-> FALSE, text |-> SubSeq(s, 1, n)]>>
                  \o escape_str(SubSeq(s, n + 1, Len(s)))

\* An escaping writer that drops the backslash of every escape sequence.
EscapingToken_no_backslash(token) ==
    IF ~token.escaped THEN PercentEncoding_write_str(token.text)
    ELSE PercentEncoding_write_str(Tail(token.text))

\* An escaping writer that sends the body of every escape sequence to the
\* sink as it is.
EscapingToken_body_as_is(token) ==
    IF ~token.escaped THEN PercentEncoding_write_str(token.text)
    ELSE Then(Wr(REVERSE_SOLIDUS), Wr(Tail(token.text)))

\* One token of EscapingPercentEncodingWrite::write_str.
EscapingToken(token) ==
    IF ~token.escaped THEN PercentEncoding_write_str(token.text)
    ELSE LET body == Tail(token.text)
         IN  Then(Wr(REVERSE_SOLIDUS),
                  CASE body = <<QUOTE_CH>> -> Wr(QUOTE)
                    [] body = <<BACKSLASH>> -> Wr(REVERSE_SOLIDUS)
                    [] body = <<SOLIDUS_CH>> -> Wr(SOLIDUS)
                    [] OTHER -> Wr(body))

\* impl Write for EscapingPercentEncodingWrite: escaped.try_for_each(..)
Escaping_write_str(s) ==
    LET tokens == escape_str(s)
    IN  ThenAll([i \in 1..Len(tokens) |-> EscapingToken(tokens[i])])

\* A writer layer is "pe" (PercentEncoding, also behind as_mut) or "esc"
\* (EscapingPercentEncodingWrite, what PercentEncoding::escape returns).
W_write_str(layer, s) ==
    IF layer = "esc" THEN Escaping_write_str(s) ELSE PercentEncoding_write_str(s)

\* ------------------------------------------------------------------ values
\* A value is what an adapter presents through the traversal protocol, a record
\* tagged by t:
\*   bool(b)  int(w, n)  float(w, cls, tenths)  char(c)  str(s)  bytes(bytes)
\*   unit  unit_struct  none  some(inner)  newtype_struct(inner)
\*   unit_variant(variant)  newtype_variant(variant, inner)
\*   seq(items)  tuple(items)  tuple_struct(items)  tuple_variant(variant, items)
\*   map(pairs: [key: value, value])  struct(pairs: [key: text, value])
\*   struct_variant(variant, pairs)
\*   fail(msg): a value whose Serialize impl returns Err(Error::custom(msg))
\*   without calling the serializer
\*   skipped: in the place of a field's value, a field the adapter omits
\*   (it calls skip_field, which the encoders leave at serde's default)
StrOf(s) == [t |-> "str", s |-> s]

\* is_finite answering true for every float.
IsFinite_always(v) == TRUE

\* f32::is_finite, f64::is_finite
IsFinite(v) == v.cls = "finite"

RECURSIVE KeySerializerNoQuotes_empty_as_text(_, _)
\* A key encoder that writes unit, None and unit-struct keys as null.
KeySerializerNoQuotes_empty_as_text(layer, key) ==
    CASE key.t = "str" -> W_write_str(layer, key.s)
      [] key.t = "char" -> W_write_str(layer, <<key.c>>)
      [] key.t = "unit_variant" -> W_write_str(layer, key.variant)
      [] key.t \in {"newtype_struct", "some"} ->
            KeySerializerNoQuotes_empty_as_text(layer, key.inner)
      [] key.t = "bool" -> PercentEncoding_write_bool(key.b)
      [] key.t = "int" -> PercentEncoding_write_integer(key.n)
      [] key.t = "float" ->
            IF ~IsFinite(key) THEN Raise(float_key_must_be_finite)
            ELSE PercentEncoding_write_float(key.tenths)
      [] key.t \in {"none", "unit", "unit_struct"} -> PercentEncoding_write_null
      [] key.t = "bytes" -> Raise(key_must_be_string("bytes"))
      [] key.t = "seq" -> Raise(key_must_be_string("Seq"))
      [] key.t = "tuple" -> Raise(key_must_be_string("Tuple"))
      [] key.t = "tuple_struct" -> Raise(key_must_be_string("TupleStruct"))
      [] key.t = "newtype_variant" -> Raise(key_must_be_string("NewtypeVariant"))
      [] key.t = "tuple_variant" -> Raise(key_must_be_string("TupleVariant"))
      [] key.t = "map" -> Raise(key_must_be_string("Map"))
      [] key.t = "struct" -> Raise(key_must_be_string("struct"))
      [] key.t = "struct_variant" -> Raise(key_must_be_string("StructVariant"))
      [] key.t = "fail" -> Raise(custom(key.msg))

RECURSIVE KeySerializerNoQuotes(_, _)
\* impl Serializer for KeySerializerNoQuotes<W>, W the given layer.
KeySerializerNoQuotes(layer, key) ==
    CASE key.t = "str" -> W_write_str(layer, key.s)
      [] key.t = "char" -> W_write_str(layer, <<key.c>>)
      [] key.t = "unit_variant" -> W_write_str(layer, key.variant)
      [] key.t = "newtype_struct" -> KeySerializerNoQuotes(layer, key.inner)
      [] key.t = "some" -> KeySerializerNoQuotes(layer, key.inner)
      [] key.t = "bool" -> PercentEncoding_write_bool(key.b)
      [] key.t = "int" -> PercentEncoding_write_integer(key.n)
      [] key.t = "float" ->
            IF ~IsFinite(key) THEN Raise(float_key_must_be_finite)
            ELSE PercentEncoding_write_float(key.tenths)
      [] key.t = "none" -> Raise(key_must_be_string("Option::<T>::None"))
      [] key.t = "unit" -> Raise(key_must_be_string("()"))
      [] key.t = "unit_struct" -> Raise(key_must_be_string("UnitStruct"))
      [] key.t = "bytes" -> Raise(key_must_be_string("bytes"))
      [] key.t = "seq" -> Raise(key_must_be_string("Seq"))
      [] key.t = "tuple" -> Raise(key_must_be_string("Tuple"))
      [] key.t = "tuple_struct" -> Raise(key_must_be_string("TupleStruct"))
      [] key.t = "newtype_variant" -> Raise(key_must_be_string("NewtypeVariant"))
      [] key.t = "tuple_variant" -> Raise(key_must_be_string("TupleVariant"))
      [] key.t = "map" -> Raise(key_must_be_string("Map"))
      [] key.t = "struct" -> Raise(key_must_be_string("struct"))
      [] key.t = "struct_variant" -> Raise(key_must_be_string("StructVariant"))
      [] key.t = "fail" -> Raise(custom(key.msg))

\* ------------------------------------------------------------------ JSON sub-encoder
\* A cursor (SeqSerializer, MapSerializer) is [out, is_first]: out is the
\* effect of the calls made on it so far.

\* json::SeqSerializer::new
SeqSerializer_new == [out |-> write_left_sq_bracket, is_first |-> TRUE]

\* json::MapSerializer::new
MapSerializer_new == [out |-> write_left_bracket, is_first |-> TRUE]

\* A call on a cursor: its effect follows the earlier ones; a call that fails
\* leaves is_first as it was.
Call(ser, effect, is_first) ==
    LET out == Then(ser.out, effect)
    IN  [out |-> out, is_first |-> IF out.err = OkE THEN is_first ELSE ser.is_first]

\* serialize_key that puts the quotes only around a key that is text.
MapSerializer_serialize_key_scalars_unquoted(ser, key) ==
    LET quote == IF key.t \in {"bool", "int", "float"} THEN Nothing ELSE write_quote
    IN  Call(ser,
             ThenAll(<<IF ~ser.is_first THEN write_comma ELSE Nothing,
                       quote,
                       KeySerializerNoQuotes("esc", key),
                       quote,
                       write_colon>>),
             FALSE)

\* json::MapSerializer::serialize_key
MapSerializer_serialize_key(ser, key) ==
    Call(ser,
         ThenAll(<<IF ~ser.is_first THEN write_comma ELSE Nothing,
                   write_quote,
                   KeySerializerNoQuotes("esc", key),
                   write_quote,
                   write_colon>>),
         FALSE)

\* serialize_str that quotes and escapes in every mode.
JsonSerializer_serialize_str_always_quoted(v, is_top_level_value) ==
    ThenAll(<<write_quote, Escaping_write_str(v), write_quote>>)

\* serialize_str that marks a top-level string with quotes, unescaped.
JsonSerializer_serialize_str_top_level_quoted(v, is_top_level_value) ==
    IF is_top_level_value
    THEN ThenAll(<<write_quote, PercentEncoding_write_str(v), write_quote>>)
    ELSE ThenAll(<<write_quote, Escaping_write_str(v), write_quote>>)

\* json::JsonSerializer::serialize_str
JsonSerializer_serialize_str(v, is_top_level_value) ==
    IF is_top_level_value THEN PercentEncoding_write_str(v)
    ELSE ThenAll(<<write_quote, Escaping_write_str(v), write_quote>>)

RECURSIVE JsonSerializer(_, _)
RECURSIVE SeqSerializer_serialize_element(_, _)
RECURSIVE MapSerializer_serialize_value(_, _)
RECURSIVE SerializeElements(_, _)
RECURSIVE SerializeEntries(_, _)

\* serialize_element that writes the comma before every element.
SeqSerializer_serialize_element_always_comma(ser, value) ==
    Call(ser, Then(write_comma, JsonSerializer(value, FALSE)), FALSE)

\* json::SeqSerializer::serialize_element
SeqSerializer_serialize_element(ser, value) ==
    Call(ser,
         Then(IF ~ser.is_first THEN write_comma ELSE Nothing,
              JsonSerializer(value, FALSE)),
         FALSE)

\* json::SeqSerializer::end
SeqSerializer_end(ser) == Then(ser.out, write_right_sq_bracket)

\* serialize_value handing the value a writer that wraps one more
\* percent-encoding layer around the map's own: the percent sign of every
\* triple the value writes is encoded again.
MapSerializer_serialize_value_one_more_layer(ser, value) ==
    LET inner == JsonSerializer(value, FALSE)
        again(chunk) ==
            IF chunk # <<>> /\ Head(chunk) = PERCENT
            THEN <<PERCENT, 50, 53>> \o Tail(chunk)
            ELSE chunk
    IN  Call(ser,
             [inner EXCEPT !.chunks = [i \in 1..Len(inner.chunks) |-> again(inner.chunks[i])]],
             ser.is_first)

\* json::MapSerializer::serialize_value
MapSerializer_serialize_value(ser, value) ==
    Call(ser, JsonSerializer(value, FALSE), ser.is_first)

\* SerializeMap::serialize_entry (serde's default): the key, then the value.
MapSerializer_serialize_entry(ser, key, value) ==
    MapSerializer_serialize_value(MapSerializer_serialize_key(ser, key), value)

\* json::MapSerializer::end
MapSerializer_end(ser) == Then(ser.out, write_right_bracket)

\* The adapter's loop over the elements of a sequence, tuple or tuple variant.
SerializeElements(ser, items) ==
    IF items = <<>> THEN ser
    ELSE SerializeElements(SeqSerializer_serialize_element(ser, Head(items)), Tail(items))

\* The adapter's loop over the entries of a map, record or struct variant.
SerializeEntries(ser, pairs) ==
    IF pairs = <<>> THEN ser
    ELSE SerializeEntries(
             MapSerializer_serialize_entry(ser, Head(pairs).key, Head(pairs).value),
             Tail(pairs))

\* The fields the adapter presents with serialize_field: all but the omitted.
Present(pairs) == SelectSeq(pairs, LAMBDA p : p.value.t # "skipped")

\* A record's fields are entries whose keys are static strings.
FieldEntries(pairs) ==
    LET fields == Present(pairs)
    IN  [i \in 1..Len(fields) |-> [key |-> StrOf(fields[i].key), value |-> fields[i].value]]

\* TupleVariantSerializer::new that opens the array without the tag object.
TupleVariantSerializer_new_untagged(variant) == SeqSerializer_new

\* json::TupleVariantSerializer::new: `{"variant":` left open, then `[`.
TupleVariantSerializer_new(variant) ==
    LET map == MapSerializer_serialize_key(MapSerializer_new, StrOf(variant))
    IN  [out |-> Then(map.out, SeqSerializer_new.out), is_first |-> TRUE]

\* json::StructVariantSerializer::new: `{"variant":` left open, then `{`.
StructVariantSerializer_new(variant) ==
    LET map == MapSerializer_serialize_key(MapSerializer_new, StrOf(variant))
    IN  [out |-> Then(map.out, MapSerializer_new.out), is_first |-> TRUE]

\* impl Serializer for JsonSerializer<W>
JsonSerializer(value, is_top_level_value) ==
    CASE value.t = "bool" -> PercentEncoding_write_bool(value.b)
      [] value.t = "int" -> PercentEncoding_write_integer(value.n)
      [] value.t = "float" ->
            IF ~IsFinite(value) THEN PercentEncoding_write_null
            ELSE PercentEncoding_write_float(value.tenths)
      [] value.t = "char" -> JsonSerializer_serialize_str(<<value.c>>, is_top_level_value)
      [] value.t = "str" -> JsonSerializer_serialize_str(value.s, is_top_level_value)
      [] value.t = "bytes" -> write_byte_array(value.bytes)
      [] value.t = "unit" -> PercentEncoding_write_null
      [] value.t = "unit_struct" -> PercentEncoding_write_null
      [] value.t = "none" -> PercentEncoding_write_null
      [] value.t = "unit_variant" ->
            JsonSerializer_serialize_str(value.variant, is_top_level_value)
      [] value.t = "newtype_struct" -> JsonSerializer(value.inner, is_top_level_value)
      [] value.t = "some" -> JsonSerializer(value.inner, is_top_level_value)
      [] value.t = "newtype_variant" ->
            MapSerializer_end(
                MapSerializer_serialize_entry(
                    MapSerializer_new, StrOf(value.variant), value.inner))
      [] value.t \in {"seq", "tuple", "tuple_struct"} ->
            SeqSerializer_end(SerializeElements(SeqSerializer_new, value.items))
      [] value.t = "tuple_variant" ->
            LET seq == SerializeElements(TupleVariantSerializer_new(value.variant),
                                         value.items)
            IN  ThenAll(<<seq.out, write_right_sq_bracket, write_right_bracket>>)
      [] value.t = "map" ->
            MapSerializer_end(SerializeEntries(MapSerializer_new, value.pairs))
      [] value.t = "struct" ->
            MapSerializer_end(
                SerializeEntries(MapSerializer_new, FieldEntries(value.pairs)))
      [] value.t = "struct_variant" ->
            LET map == SerializeEntries(StructVariantSerializer_new(value.variant),
                                        FieldEntries(value.pairs))
            IN  ThenAll(<<map.out, write_right_bracket, write_right_bracket>>)
      [] value.t = "fail" -> Raise(custom(value.msg))

\* ------------------------------------------------------------------ top-level form encoder
\* The top-level Serializer is [output, is_first]; output is the sink itself
\* (each key and value gets a fresh PercentEncoding around it).

\* Serializer::new that takes a sink holding text for one in mid-encode.
Serializer_new_continuing(writer) == [output |-> writer, is_first |-> writer.buf = <<>>]

\* Serializer::new
Serializer_new(writer) == [output |-> writer, is_first |-> TRUE]

\* serialize_key writing the key through the JSON-escaping layer.
Serializer_serialize_key_escaped(self, key) ==
    ThenAll(<<IF ~self.is_first THEN Wr(<<AMP>>) ELSE Nothing,
              KeySerializerNoQuotes("esc", key),
              Wr(<<EQ>>)>>)

\* impl SerializeMap for MapSerializer (lib.rs): what serialize_key writes
Serializer_serialize_key(self, key) ==
    ThenAll(<<IF ~self.is_first THEN Wr(<<AMP>>) ELSE Nothing,
              KeySerializerNoQuotes("pe", key),
              Wr(<<EQ>>)>>)

\* A handler of the top-level Serializer ran with the given effect: the sink
\* takes it, and is_first is updated when the handler returned Ok.
Ran(self, effect, is_first) ==
    LET w == Apply(self.output, effect)
    IN  [output |-> w, is_first |-> IF IsOk(w) THEN is_first ELSE self.is_first]

\* impl SerializeMap for MapSerializer (lib.rs): serialize_key
Serializer_after_key(self, key) ==
    Ran(self, Serializer_serialize_key(self, key), self.is_first)

\* serialize_value handing the value over without top-level-value mode.
Serializer_after_value_nested(self, value) ==
    Ran(self, JsonSerializer(value, FALSE), FALSE)

\* serialize_value that leaves is_first as it found it.
Serializer_after_value_keeps_first(self, value) ==
    Ran(self, JsonSerializer(value, TRUE), self.is_first)

\* serialize_value whose top-level-value mode does not pass through an
\* Option or a newtype struct.
Serializer_after_value_mode_lost_in_wrapper(self, value) ==
    Ran(self,
        IF value.t \in {"some", "newtype_struct"} THEN JsonSerializer(value.inner, FALSE)
        ELSE JsonSerializer(value, TRUE),
        FALSE)

\* impl SerializeMap for MapSerializer (lib.rs): serialize_value
Serializer_after_value(self, value) ==
    Ran(self, JsonSerializer(value, TRUE), FALSE)

\* SerializeMap::serialize_entry (serde's default): the key, then the value.
Serializer_after_entry(self, key, value) ==
    Serializer_after_value(Serializer_after_key(self, key), value)

\* A handler of a JSON cursor held by the top-level encoder (a root tuple or
\* struct variant): the cursor's effect goes to the sink.
Held(self, cursor) ==
    LET w == Apply(self.output, cursor.out)
    IN  [output |-> w, is_first |-> cursor.is_first]
\* The cursor of self, with nothing pending.
Cursor(self) == [out |-> Nothing, is_first |-> self.is_first]

\* error_unsupported! { top_level_must_be_object, [bool integers char str bytes array] }
UnsupportedWidths == {"i8", "i16", "i32", "i64", "u8", "u16", "u32", "u64"}

IsUnsupported(v) ==
    \/ v.t \in {"bool", "float", "char", "str", "unit_variant", "bytes",
                "seq", "tuple", "tuple_struct"}
    \/ (v.t = "int" /\ v.w \in UnsupportedWidths)

\* The rejecting methods with serialize_tuple reporting itself as a sequence.
UnsupportedName_tuple_as_seq(v) ==
    CASE v.t = "bool" -> "bool"
      [] v.t = "int" -> v.w
      [] v.t = "float" -> v.w
      [] v.t = "char" -> "char"
      [] v.t = "str" -> "str"
      [] v.t = "unit_variant" -> "UnitVariant"
      [] v.t = "bytes" -> "bytes"
      [] v.t \in {"seq", "tuple"} -> "Seq"
      [] v.t = "tuple_struct" -> "TupleStruct"

\* The name each rejecting method hands to top_level_must_be_object.
UnsupportedName(v) ==
    CASE v.t = "bool" -> "bool"
      [] v.t = "int" -> v.w
      [] v.t = "float" -> v.w
      [] v.t = "char" -> "char"
      [] v.t = "str" -> "str"
      [] v.t = "unit_variant" -> "UnitVariant"
      [] v.t = "bytes" -> "bytes"
      [] v.t = "seq" -> "Seq"
      [] v.t = "tuple" -> "Tuple"
      [] v.t = "tuple_struct" -> "TupleStruct"

\* serde's default serialize_i128 / serialize_u128, which Serializer keeps.
I128Message(v) == IF v.w = "i128" THEN "i128 is not supported" ELSE "u128 is not supported"

\* ------------------------------------------------------------------ inputs
\* Texts: `id`, `k=&`, `"\<LF>e'` (quote, backslash, line feed, e-acute),
\* `Complete`, `a "b"`, `=&\<U+0001>~`.
K_id == <<105, 100>>
K_sep == <<107, 61, 38>>
K_esc == <<34, 92, 10, 233>>
T_Complete == <<67, 111, 109, 112, 108, 101, 116, 101>>
S_quoted == <<97, 32, 34, 98, 34>>
S_mixed == <<61, 38, 92, 1, 126>>

IntOf(w, n) == [t |-> "int", w |-> w, n |-> n]
BoolOf(b) == [t |-> "bool", b |-> b]
FloatOf(w, cls, tenths) == [t |-> "float", w |-> w, cls |-> cls, tenths |-> tenths]
CharOf(c) == [t |-> "char", c |-> c]
BytesOf(bytes) == [t |-> "bytes", bytes |-> bytes]
Unit == [t |-> "unit"]
UnitStruct == [t |-> "unit_struct"]
None == [t |-> "none"]
Some(v) == [t |-> "some", inner |-> v]
NewtypeStruct(v) == [t |-> "newtype_struct", inner |-> v]
UnitVariant(variant) == [t |-> "unit_variant", variant |-> variant]
NewtypeVariant(variant, v) == [t |-> "newtype_variant", variant |-> variant, inner |-> v]
SeqOf(items) == [t |-> "seq", items |-> items]
TupleOf(items) == [t |-> "tuple", items |-> items]
TupleStructOf(items) == [t |-> "tuple_struct", items |-> items]
TupleVariant(variant, items) == [t |-> "tuple_variant", variant |-> variant, items |-> items]
MapOf(pairs) == [t |-> "map", pairs |-> pairs]
StructOf(pairs) == [t |-> "struct", pairs |-> pairs]
StructVariant(variant, pairs) == [t |-> "struct_variant", variant |-> variant, pairs |-> pairs]
Failing(msg) == [t |-> "fail", msg |-> msg]
Skipped == [t |-> "skipped"]
Pair(k, v) == [key |-> k, value |-> v]

NaN == FloatOf("f64", "nan", 0)

\* The leaves nested values are built from.
Atoms ==
    {IntOf("u32", 404), BoolOf(TRUE), StrOf(S_quoted), StrOf(S_mixed), None, NaN}

\* One more level of nesting around v, one way per composite shape.
Wrap(v) ==
    {SeqOf(<<v>>), SeqOf(<<IntOf("i32", 0 - 12), v>>),
     MapOf(<<Pair(StrOf(K_esc), v)>>), StructOf(<<Pair(K_id, v), Pair(K_sep, v)>>),
     NewtypeVariant(T_Complete, v), TupleVariant(K_sep, <<v, v>>)}

RECURSIVE ValuesOfDepth(_)
ValuesOfDepth(d) ==
    IF d = 0 THEN Atoms
    ELSE LET S == ValuesOfDepth(d - 1)
         IN  S \cup UNION {Wrap(v) : v \in S}

\* Shapes that occur only unnested in the inputs.
ExtraValues ==
    {FloatOf("f64", "finite", 0 - 25), FloatOf("f32", "inf", 0), FloatOf("f64", "ninf", 0),
     FloatOf("f64", "finite", 30),
     CharOf(34), CharOf(233), UnitVariant(K_sep), Unit, UnitStruct,
     BytesOf(<<>>), BytesOf(<<10, 20, 255>>), IntOf("i128", 7), IntOf("u128", 7),
     Some(StrOf(S_quoted)), NewtypeStruct(StrOf(S_mixed)), Some(SeqOf(<<StrOf(S_quoted)>>)),
     SeqOf(<<>>), MapOf(<<>>), StructOf(<<>>), TupleOf(<<BoolOf(FALSE), StrOf(K_id)>>),
     TupleStructOf(<<CharOf(92)>>), TupleVariant(T_Complete, <<>>),
     StructVariant(K_esc, <<Pair(K_esc, StrOf(S_mixed)), Pair(K_id, None)>>),
     StructVariant(K_id, <<>>),
     MapOf(<<Pair(IntOf("i32", 1), StrOf(K_id)), Pair(BoolOf(TRUE), Unit)>>),
     MapOf(<<Pair(FloatOf("f64", "finite", 15), BoolOf(FALSE))>>),
     MapOf(<<Pair(NaN, BoolOf(FALSE))>>),
     MapOf(<<Pair(SeqOf(<<IntOf("i32", 1)>>), IntOf("i32", 3))>>),
     SeqOf(<<Some(StrOf(K_sep)), CharOf(10), UnitVariant(K_esc)>>)}

\* Every value a field, element or payload takes.
Values == ValuesOfDepth(MaxDepth) \cup ExtraValues

\* The values the fields of a root of several pairs take.
FewValues == {IntOf("u32", 404), StrOf(S_mixed), SeqOf(<<StrOf(S_quoted)>>), None}

FieldNames == {K_id, K_sep, K_esc}

\* The keys a root map presents: texts, scalars, and what no key may be.
MapKeys ==
    {StrOf(K_sep), StrOf(<<>>), IntOf("i64", 0 - 7), BoolOf(FALSE), CharOf(38),
     FloatOf("f64", "finite", 15), NaN, Unit, None, SeqOf(<<>>),
     Some(StrOf(K_esc)), UnitVariant(K_id)}

RECURSIVE SeqsUpTo(_, _)
\* The sequences over S of length at most n.
SeqsUpTo(S, n) ==
    IF n = 0 THEN {<<>>}
    ELSE LET R == SeqsUpTo(S, n - 1)
         IN  R \cup {Append(r, x) : r \in {q \in R : Len(q) = n - 1}, x \in S}

FieldPairs == {Pair(k, v) : k \in FieldNames, v \in FewValues}
MapPairs == {Pair(k, v) : k \in MapKeys, v \in {IntOf("u32", 404), StrOf(S_quoted)}}

StructRoots ==
    {StructOf(ps) : ps \in SeqsUpTo(FieldPairs, MaxPairs)}
    \cup {StructOf(<<Pair(k, v)>>) : k \in {K_id}, v \in Values}
MapRoots == {MapOf(ps) : ps \in SeqsUpTo(MapPairs, MaxPairs)}
NewtypeVariantRoots == {NewtypeVariant(n, v) : n \in {T_Complete, K_esc}, v \in Values}
TupleVariantRoots ==
    {TupleVariant(n, items) : n \in {T_Complete, K_sep},
                              items \in SeqsUpTo(FewValues, MaxPairs)}
    \cup {TupleVariant(K_esc, <<v>>) : v \in Values}
StructVariantRoots ==
    {StructVariant(n, ps) : n \in {T_Complete, K_esc},
                            ps \in SeqsUpTo({Pair(k, v) : k \in {K_id, K_esc},
                                                          v \in FewValues}, MaxPairs)}
    \cup {StructVariant(K_sep, <<Pair(K_esc, v)>>) : v \in Values}
UnitRoots == {Unit, UnitStruct, None}
ScalarRoots ==
    {BoolOf(TRUE), BoolOf(FALSE), CharOf(97), StrOf(<<>>), StrOf(S_quoted), UnitVariant(T_Complete),
     BytesOf(<<>>), BytesOf(<<1, 2>>), SeqOf(<<>>), SeqOf(<<IntOf("i32", 1)>>),
     TupleOf(<<IntOf("i32", 1), IntOf("i32", 4)>>), TupleStructOf(<<BoolOf(TRUE)>>),
     FloatOf("f32", "finite", 15), NaN, FloatOf("f64", "inf", 0)}
    \cup {IntOf(w, 123) : w \in UnsupportedWidths \cup {"i128", "u128"}}
\* Option and newtype-struct wrappers around a root.
WrappedRoots ==
    {Some(v) : v \in UnitRoots \cup {IntOf("i32", 1), StructOf(<<Pair(K_id, BoolOf(TRUE))>>)}}
    \cup {NewtypeStruct(MapOf(<<Pair(StrOf(K_sep), None)>>)),
          NewtypeStruct(Some(NewtypeVariant(K_id, StrOf(S_mixed)))),
          Some(NewtypeStruct(SeqOf(<<>>)))}

\* Keys no map may present: composites, non-finite floats, and the empty
\* shapes.
CompositeKeys ==
    {BytesOf(<<1>>), SeqOf(<<>>), TupleOf(<<IntOf("i32", 1)>>), TupleStructOf(<<BoolOf(TRUE)>>),
     MapOf(<<>>), StructOf(<<>>), NewtypeVariant(K_id, IntOf("i32", 1)),
     TupleVariant(K_id, <<>>), StructVariant(K_id, <<>>), Some(SeqOf(<<>>))}
NonFiniteKeys ==
    {NaN, FloatOf("f32", "inf", 0), FloatOf("f64", "ninf", 0), NewtypeStruct(NaN)}
EmptyKeys == {Unit, None, UnitStruct}
BadKeys == CompositeKeys \cup NonFiniteKeys \cup EmptyKeys

\* A map with a good entry, then an entry under key k.
MapWith(k) == MapOf(<<Pair(StrOf(K_sep), None), Pair(k, BoolOf(TRUE))>>)
\* Roots that meet a bad key: as a form key, first or second, and as a key of
\* an object inside a field value, an element or a variant payload.
KeyRoots ==
    UNION {{MapOf(<<Pair(k, IntOf("u32", 404))>>),
            MapOf(<<Pair(StrOf(K_id), StrOf(S_quoted)), Pair(k, IntOf("u32", 404))>>),
            StructOf(<<Pair(K_id, MapWith(k))>>),
            StructOf(<<Pair(K_id, SeqOf(<<MapWith(k)>>))>>),
            NewtypeVariant(T_Complete, MapWith(k)),
            TupleVariant(T_Complete, <<BoolOf(FALSE), MapWith(k)>>),
            StructVariant(T_Complete, <<Pair(K_id, MapWith(k))>>)} : k \in BadKeys}

\* Records whose field holds variants inside variants and inside arrays.
NestedVariantRoots ==
    {StructOf(<<Pair(K_id, v)>>) :
        v \in {NewtypeVariant(T_Complete, UnitVariant(K_esc)),
               TupleVariant(K_esc, <<UnitVariant(K_id), StructVariant(K_sep, <<>>)>>),
               StructVariant(T_Complete, <<Pair(K_esc, UnitVariant(K_sep)),
                                           Pair(K_id, TupleVariant(K_id, <<>>))>>),
               SeqOf(<<NewtypeVariant(K_id, StrOf(S_quoted)), UnitVariant(T_Complete)>>),
               Some(StructVariant(K_id, <<Pair(K_id, FloatOf("f64", "finite", 15))>>))}}

\* Records whose field is a byte sequence, or an array of byte sequences.
ByteArrays == {<<>>, <<0>>, <<10, 20, 30>>, <<255, 0, 100, 9>>}
BytesRoots ==
    {StructOf(<<Pair(K_id, BytesOf(b))>>) : b \in ByteArrays}
    \cup {StructOf(<<Pair(K_id, SeqOf(<<BytesOf(b), BytesOf(<<>>)>>)),
                     Pair(K_sep, Some(BytesOf(b)))>>) : b \in ByteArrays}

\* Records of several fields, all scalars.
ScalarFieldRoots ==
    {StructOf(ps) :
        ps \in SeqsUpTo({Pair(k, v) : k \in {K_sep, K_esc},
                                      v \in {BoolOf(FALSE), IntOf("i64", 0 - 7),
                                             FloatOf("f64", "finite", 0 - 25), UnitStruct}},
                        MaxPairs)}
    \cup {StructOf(<<Pair(K_sep, CharOf(97)), Pair(K_id, BoolOf(TRUE))>>),
          StructOf(<<Pair(K_id, IntOf("i128", 7)), Pair(K_esc, FloatOf("f32", "ninf", 0))>>)}

\* Roots that meet a value that fails on its own: the root itself, a field,
\* a form key, an element or key at depth, alone or beside a bad key.
FailingRoots ==
    LET boom == Failing("boom")
        late == Failing("late")
        deep == SeqOf(<<IntOf("u32", 404),
                        MapOf(<<Pair(StrOf(K_esc), SeqOf(<<StrOf(S_quoted), boom, None>>)),
                                Pair(StrOf(K_id), BoolOf(TRUE))>>)>>)
    IN  {boom, Some(late),
         StructOf(<<Pair(K_id, boom)>>),
         StructOf(<<Pair(K_id, boom), Pair(K_sep, IntOf("u32", 404))>>),
         StructOf(<<Pair(K_id, StrOf(S_mixed)), Pair(K_sep, boom)>>),
         StructOf(<<Pair(K_id, deep), Pair(K_sep, IntOf("u32", 404))>>),
         StructOf(<<Pair(K_id, SeqOf(<<boom, late>>))>>),
         StructOf(<<Pair(K_id, SeqOf(<<MapWith(NaN)>>)), Pair(K_sep, late)>>),
         StructOf(<<Pair(K_id, SeqOf(<<late, MapWith(SeqOf(<<>>))>>))>>),
         MapOf(<<Pair(boom, IntOf("u32", 404))>>),
         MapOf(<<Pair(StrOf(K_id), None), Pair(late, BoolOf(TRUE))>>),
         MapOf(<<Pair(StrOf(K_id), MapWith(boom)), Pair(NaN, BoolOf(TRUE))>>),
         MapOf(<<Pair(StrOf(K_id), StructOf(<<Pair(K_esc, late)>>))>>),
         NewtypeVariant(T_Complete, boom),
         NewtypeVariant(T_Complete, deep),
         TupleVariant(T_Complete, <<boom>>),
         TupleVariant(K_sep, <<StrOf(S_mixed), late>>),
         TupleVariant(K_sep, <<TupleVariant(K_id, <<BoolOf(TRUE), late>>), boom>>),
         StructVariant(T_Complete, <<Pair(K_id, late)>>),
         StructVariant(K_esc, <<Pair(K_id, None), Pair(K_sep, deep)>>),
         StructVariant(K_esc, <<Pair(K_id, StructVariant(K_id, <<Pair(K_esc, boom)>>))>>)}

\* Records and struct variants with omitted fields, in every position.
OmittedRoots ==
    LET fields == SeqsUpTo({Pair(k, v) : k \in {K_id, K_sep},
                                         v \in {IntOf("u32", 404), Skipped}}, MaxPairs + 1)
        some == {ps \in fields : \E i \in 1..Len(ps) : ps[i].value.t = "skipped"}
    IN  {StructOf(ps) : ps \in some}
        \cup {StructVariant(T_Complete, ps) : ps \in {q \in some : Len(q) <= MaxPairs}}
        \cup {StructOf(<<Pair(K_esc, StructOf(ps)), Pair(K_id, Skipped),
                         Pair(K_sep, SeqOf(<<StructVariant(K_id, ps)>>))>>) :
                 ps \in {q \in some : Len(q) <= MaxPairs}}

\* Records whose field holds one string in an array, or one scalar or string
\* key in an object: what goes through the escaping writer. The texts are
\* those of test_escaping_percent_encoding_writer, then one per escape. With
\* them the root maps that present the same keys as form keys.
EscapeRoots ==
    LET texts == {<<107, 101, 121, 61, 118, 97, 108, 117, 101>>,
                  <<34, 104, 101, 108, 108, 111, 92, 119, 111, 114, 108, 100, 34>>,
                  <<97, 32, 34, 113, 117, 111, 116, 101, 100, 34, 32, 115, 116, 114,
                    105, 110, 103>>,
                  <<>>, <<34>>, <<92>>, <<47>>, <<8>>, <<9>>, <<10>>, <<12>>, <<13>>, <<1>>,
                  <<92, 110>>, <<37, 53, 67>>, <<233, 34, 10, 126>>}
        keys == {BoolOf(TRUE), BoolOf(FALSE), IntOf("i64", 0 - 7), IntOf("u8", 0),
                 IntOf("u64", 999), IntOf("i32", 1), FloatOf("f64", "finite", 15),
                 CharOf(34), CharOf(38), UnitVariant(K_esc), Some(StrOf(K_sep)),
                 NewtypeStruct(IntOf("u8", 7))}
                \cup {StrOf(s) : s \in texts}
    IN  {StructOf(<<Pair(K_id, SeqOf(<<StrOf(s)>>))>>) : s \in texts}
        \cup {StructOf(<<Pair(K_id, MapOf(<<Pair(k, None)>>))>>) : k \in keys}
        \cup {MapOf(<<Pair(k, None)>>) : k \in keys}

\* Roots whose pair values are texts behind wrappers, alone and as the one
\* element of an array, and roots whose pair values are a scalar or the
\* string that spells it.
ModeRoots ==
    LET texts == {StrOf(S_quoted), CharOf(34), CharOf(97), UnitVariant(K_esc),
                  Some(StrOf(S_quoted)), NewtypeStruct(StrOf(S_quoted)),
                  Some(NewtypeStruct(CharOf(92))), NewtypeStruct(Some(UnitVariant(K_sep))),
                  Some(Some(StrOf(K_esc)))}
        alike == {IntOf("i32", 123), StrOf(<<49, 50, 51>>),
                  BoolOf(TRUE), StrOf(<<116, 114, 117, 101>>),
                  BoolOf(FALSE), StrOf(<<102, 97, 108, 115, 101>>),
                  None, Unit, StrOf(<<110, 117, 108, 108>>),
                  IntOf("i64", 0 - 7), StrOf(<<45, 55>>),
                  FloatOf("f64", "finite", 15), StrOf(<<49, 46, 53>>),
                  NaN, Some(IntOf("u8", 123)), UnitVariant(<<110, 117, 108, 108>>)}
    IN  UNION {{StructOf(<<Pair(K_id, v)>>), MapOf(<<Pair(StrOf(K_id), v)>>),
                StructOf(<<Pair(K_id, SeqOf(<<v>>))>>),
                StructOf(<<Pair(K_id, Some(SeqOf(<<v>>)))>>)} : v \in texts}
        \cup UNION {{StructOf(<<Pair(K_id, v)>>),
                     MapOf(<<Pair(StrOf(K_id), v), Pair(StrOf(K_sep), v)>>)} : v \in alike}

Roots ==
    StructRoots \cup MapRoots \cup NewtypeVariantRoots \cup TupleVariantRoots
    \cup StructVariantRoots \cup UnitRoots \cup ScalarRoots \cup WrappedRoots
    \cup KeyRoots \cup NestedVariantRoots \cup BytesRoots \cup ScalarFieldRoots
    \cup FailingRoots \cup OmittedRoots \cup EscapeRoots \cup ModeRoots

\* The destinations: an empty String, a String that already holds text, and
\* an empty fixed-capacity sink.
NewSink(buf, bounded, cap) == [buf |-> buf, bounded |-> bounded, cap |-> cap, err |-> OkE]
Sinks == {NewSink(<<>>, FALSE, 0), NewSink(<<120, 61>>, FALSE, 0), NewSink(<<>>, TRUE, MaxCap)}

\* ------------------------------------------------------------------ state
VARIABLES
    root,   \* the value handed to to_writer
    pre,    \* what the sink held when to_writer was called
    cur,    \* the value being presented to the top-level Serializer
    ser,    \* the serializer or cursor in use: [output, is_first]
    pc,     \* where the traversal stands
    idx,    \* pairs, fields or elements already presented
    calls   \* what the entry points called on root so far have returned

vars == <<root, pre, cur, ser, pc, idx, calls>>

\* to_writer: Serializer::new(writer), then value.serialize(ser).
Init ==
    /\ root \in Roots
    /\ \E sink \in Sinks : pre = sink.buf /\ ser = Serializer_new(sink)
    /\ cur = root
    /\ pc = "start"
    /\ idx = 0
    /\ calls = <<>>

\* A handler returned: an error ends the encode, otherwise it goes on at next.
Goto(s, next) == IF IsOk(s.output) THEN next ELSE "done"

\* Serializer::serialize_some, serialize_newtype_struct
serialize_some ==
    /\ pc = "start"
    /\ cur.t \in {"some", "newtype_struct"}
    /\ cur' = cur.inner
    /\ UNCHANGED <<calls, root, pre, ser, pc, idx>>

\* serialize_unit rejecting the root like the other scalars.
serialize_unit_rejected ==
    /\ pc = "start"
    /\ cur.t \in {"unit", "unit_struct", "none"}
    /\ ser' = Ran(ser, Raise(top_level_must_be_object("()")), ser.is_first)
    /\ pc' = "done"
    /\ UNCHANGED <<calls, root, pre, cur, idx>>

\* Serializer::serialize_unit, serialize_unit_struct, serialize_none
serialize_unit ==
    /\ pc = "start"
    /\ cur.t \in {"unit", "unit_struct", "none"}
    /\ ser' = Ran(ser, Wr(<<>>), ser.is_first)
    /\ pc' = "done"
    /\ UNCHANGED <<calls, root, pre, cur, idx>>

\* A rejecting method that writes the JSON form of nothing before it fails.
serialize_unsupported_after_write ==
    /\ pc = "start"
    /\ IsUnsupported(cur)
    /\ ser' = [output |-> [Apply(ser.output, Wr(NULL_LIT)) EXCEPT
                              !.err = top_level_must_be_object(UnsupportedName(cur))],
               is_first |-> ser.is_first]
    /\ pc' = "done"
    /\ UNCHANGED <<calls, root, pre, cur, idx>>

\* error_unsupported!: the methods that reject the root
serialize_unsupported ==
    /\ pc = "start"
    /\ IsUnsupported(cur)
    /\ ser' = Ran(ser, Raise(top_level_must_be_object(UnsupportedName(cur))), ser.is_first)
    /\ pc' = "done"
    /\ UNCHANGED <<calls, root, pre, cur, idx>>

\* serde's default serialize_i128 / serialize_u128
serialize_i128 ==
    /\ pc = "start"
    /\ cur.t = "int" /\ cur.w \in {"i128", "u128"}
    /\ ser' = Ran(ser, Raise(custom(I128Message(cur))), ser.is_first)
    /\ pc' = "done"
    /\ UNCHANGED <<calls, root, pre, cur, idx>>

\* value.serialize(ser) of a value that fails on its own (to_writer)
serialize_fails ==
    /\ pc = "start"
    /\ cur.t = "fail"
    /\ ser' = Ran(ser, Raise(custom(cur.msg)), ser.is_first)
    /\ pc' = "done"
    /\ UNCHANGED <<calls, root, pre, cur, idx>>

\* Serializer::serialize_map
serialize_map ==
    /\ pc = "start"
    /\ cur.t = "map"
    /\ pc' = "map_key"
    /\ UNCHANGED <<calls, root, pre, cur, ser, idx>>

\* Serializer::serialize_struct
serialize_struct ==
    /\ pc = "start"
    /\ cur.t = "struct"
    /\ pc' = "struct"
    /\ UNCHANGED <<calls, root, pre, cur, ser, idx>>

\* serialize_newtype_variant handing the whole variant to the JSON encoder.
serialize_newtype_variant_wrapped ==
    /\ pc = "start"
    /\ cur.t = "newtype_variant"
    /\ ser' = Ran(ser, JsonSerializer(cur, FALSE), FALSE)
    /\ pc' = "done"
    /\ UNCHANGED <<calls, root, pre, cur, idx>>

\* Serializer::serialize_newtype_variant
serialize_newtype_variant ==
    /\ pc = "start"
    /\ cur.t = "newtype_variant"
    /\ ser' = Serializer_after_entry(ser, StrOf(cur.variant), cur.inner)
    /\ pc' = "done"
    /\ UNCHANGED <<calls, root, pre, cur, idx>>

\* Serializer::serialize_tuple_variant
serialize_tuple_variant ==
    /\ pc = "start"
    /\ cur.t = "tuple_variant"
    /\ ser' = Held(Serializer_after_key(ser, StrOf(cur.variant)), SeqSerializer_new)
    /\ pc' = Goto(ser', "tuple_variant")
    /\ UNCHANGED <<calls, root, pre, cur, idx>>

\* Serializer::serialize_struct_variant
serialize_struct_variant ==
    /\ pc = "start"
    /\ cur.t = "struct_variant"
    /\ ser' = Held(Serializer_after_key(ser, StrOf(cur.variant)), MapSerializer_new)
    /\ pc' = Goto(ser', "struct_variant")
    /\ UNCHANGED <<calls, root, pre, cur, idx>>

\* MapSerializer::serialize_key (lib.rs), for the next pair of a root map
map_serialize_key ==
    /\ pc = "map_key"
    /\ idx < Len(cur.pairs)
    /\ ser' = Serializer_after_key(ser, cur.pairs[idx + 1].key)
    /\ pc' = Goto(ser', "map_value")
    /\ UNCHANGED <<calls, root, pre, cur, idx>>

\* MapSerializer::serialize_value (lib.rs)
map_serialize_value ==
    /\ pc = "map_value"
    /\ ser' = Serializer_after_value(ser, cur.pairs[idx + 1].value)
    /\ pc' = Goto(ser', "map_key")
    /\ idx' = idx + 1
    /\ UNCHANGED <<calls, root, pre, cur>>

\* serialize_field that passes over a field whose value is None.
struct_serialize_field_skips_none ==
    /\ pc = "struct"
    /\ idx < Len(cur.pairs)
    /\ cur.pairs[idx + 1].value.t # "skipped"
    /\ ser' = IF cur.pairs[idx + 1].value.t = "none" THEN ser
              ELSE Serializer_after_entry(ser, StrOf(cur.pairs[idx + 1].key),
                                          cur.pairs[idx + 1].value)
    /\ pc' = Goto(ser', "struct")
    /\ idx' = idx + 1
    /\ UNCHANGED <<calls, root, pre, cur>>

\* StructSerializer::serialize_field (lib.rs), for the next field of a root record
struct_serialize_field ==
    /\ pc = "struct"
    /\ idx < Len(cur.pairs)
    /\ cur.pairs[idx + 1].value.t # "skipped"
    /\ ser' = Serializer_after_entry(ser, StrOf(cur.pairs[idx + 1].key),
                                   cur.pairs[idx + 1].value)
    /\ pc' = Goto(ser', "struct")
    /\ idx' = idx + 1
    /\ UNCHANGED <<calls, root, pre, cur>>

\* skip_field writing the separator of the field it leaves out.
struct_skip_field_writes_separator ==
    /\ pc \in {"struct", "struct_variant"}
    /\ idx < Len(cur.pairs)
    /\ cur.pairs[idx + 1].value.t = "skipped"
    /\ ser' = Ran(ser, IF ~ser.is_first THEN Wr(<<AMP>>) ELSE Nothing, FALSE)
    /\ pc' = Goto(ser', pc)
    /\ idx' = idx + 1
    /\ UNCHANGED <<calls, root, pre, cur>>

\* SerializeStruct::skip_field, SerializeStructVariant::skip_field (serde's
\* default, which StructSerializer and StructVariantSerializer keep): Ok(())
struct_skip_field ==
    /\ pc \in {"struct", "struct_variant"}
    /\ idx < Len(cur.pairs)
    /\ cur.pairs[idx + 1].value.t = "skipped"
    /\ idx' = idx + 1
    /\ UNCHANGED <<calls, root, pre, cur, ser, pc>>

\* MapSerializer::end, StructSerializer::end (lib.rs)
map_end ==
    /\ pc \in {"map_key", "struct"}
    /\ idx = Len(cur.pairs)
    /\ pc' = "done"
    /\ UNCHANGED <<calls, root, pre, cur, ser, idx>>

\* serialize_field that forgets the comma between elements.
tuple_variant_serialize_field_no_comma ==
    /\ pc = "tuple_variant"
    /\ idx < Len(cur.items)
    /\ ser' = Held(ser, SeqSerializer_serialize_element(
                            [out |-> Nothing, is_first |-> TRUE], cur.items[idx + 1]))
    /\ pc' = Goto(ser', "tuple_variant")
    /\ idx' = idx + 1
    /\ UNCHANGED <<calls, root, pre, cur>>

\* TupleVariantSerializer::serialize_field (lib.rs)
tuple_variant_serialize_field ==
    /\ pc = "tuple_variant"
    /\ idx < Len(cur.items)
    /\ ser' = Held(ser, SeqSerializer_serialize_element(Cursor(ser), cur.items[idx + 1]))
    /\ pc' = Goto(ser', "tuple_variant")
    /\ idx' = idx + 1
    /\ UNCHANGED <<calls, root, pre, cur>>

\* TupleVariantSerializer::end (lib.rs)
tuple_variant_end ==
    /\ pc = "tuple_variant"
    /\ idx = Len(cur.items)
    /\ ser' = Ran(ser, SeqSerializer_end(Cursor(ser)), ser.is_first)
    /\ pc' = "done"
    /\ UNCHANGED <<calls, root, pre, cur, idx>>

\* StructVariantSerializer::serialize_field (lib.rs)
struct_variant_serialize_field ==
    /\ pc = "struct_variant"
    /\ idx < Len(cur.pairs)
    /\ cur.pairs[idx + 1].value.t # "skipped"
    /\ ser' = Held(ser, MapSerializer_serialize_entry(Cursor(ser), StrOf(cur.pairs[idx + 1].key),
                                                  cur.pairs[idx + 1].value))
    /\ pc' = Goto(ser', "struct_variant")
    /\ idx' = idx + 1
    /\ UNCHANGED <<calls, root, pre, cur>>

\* StructVariantSerializer::end (lib.rs)
struct_variant_end ==
    /\ pc = "struct_variant"
    /\ idx = Len(cur.pairs)
    /\ ser' = Ran(ser, MapSerializer_end(Cursor(ser)), ser.is_first)
    /\ pc' = "done"
    /\ UNCHANGED <<calls, root, pre, cur, idx>>

Next ==
    \/ serialize_some
    \/ serialize_unit
    \/ serialize_unsupported
    \/ serialize_i128
    \/ serialize_fails
    \/ serialize_map
    \/ serialize_struct
    \/ serialize_newtype_variant
    \/ serialize_tuple_variant
    \/ serialize_struct_variant
    \/ map_serialize_key
    \/ map_serialize_value
    \/ struct_serialize_field
    \/ struct_skip_field
    \/ map_end
    \/ tuple_variant_serialize_field
    \/ tuple_variant_end
    \/ struct_variant_serialize_field
    \/ struct_variant_end

Spec == Init /\ [][Next]_vars

\* ------------------------------------------------------------------ observations
\* to_writer has returned.
Done == pc = "done"
\* What to_writer returned: Ok(()) or the error.
Result == ser.output.err
Succeeded == Done /\ Result = OkE
\* What the sink holds, and what this encode appended to it.
SinkText == ser.output.buf
Output == SubSeq(SinkText, Len(pre) + 1, Len(SinkText))

\* The root once its Option / newtype-struct wrappers are taken off.
RECURSIVE Unwrapped(_)
Unwrapped(v) == IF v.t \in {"some", "newtype_struct"} THEN Unwrapped(v.inner) ELSE v
Shape == Unwrapped(root)

\* ------------------------------------------------------------------ the entry points
\* A caller that encodes the same value with each entry point in turn:
\* to_writer, to_writer once more, to_string, to_vec, display. Each call runs
\* the handlers above; calls records what each returned as
\* [fn, ok, err, val, out, sink]: val is the value inside Ok, out the text the
\* call appended to its sink, sink the sink's kind and what it held before.
Entries == <<"to_writer", "to_writer", "to_string", "to_vec", "display">>
Entry == IF Len(calls) < Len(Entries) THEN Entries[Len(calls) + 1] ELSE "none"

\* A String that cannot grow beyond the capacity it was created with.
String_with_capacity_fixed == [buf |-> <<>>, bounded |-> TRUE, cap |-> MaxCap, err |-> OkE]

\* String::with_capacity(128) in to_string: an empty String, which grows.
String_with_capacity == NewSink(<<>>, FALSE, 0)

\* Serializer::new(writer); value.serialize(ser)
Start(sink) ==
    /\ pre' = sink.buf
    /\ ser' = Serializer_new(sink)
    /\ cur' = root
    /\ idx' = 0
    /\ pc' = "start"
    /\ UNCHANGED root

\* to_writer returns value.serialize(ser); the caller then calls to_writer
\* again, with the same String, with a new sink like the first, or, after
\* that, to_string.
to_writer_return ==
    /\ pc = "done" /\ Entry = "to_writer"
    /\ calls' = Append(calls, [fn |-> "to_writer", ok |-> IsOk(ser.output),
                               err |-> ser.output.err, val |-> <<>>, out |-> Output,
                               sink |-> [bounded |-> ser.output.bounded,
                                         cap |-> ser.output.cap, pre |-> pre]])
    /\ IF Len(calls) = 0
       THEN \E sink \in IF ser.output.bounded
                        THEN {NewSink(pre, TRUE, ser.output.cap)}
                        ELSE {NewSink(pre, FALSE, 0), NewSink(SinkText, FALSE, 0)} :
                Start(sink)
       ELSE Start(String_with_capacity)

\* to_string: to_writer(&mut writer, value)?; Ok(writer). The caller then
\* calls to_vec, which calls to_string.
to_string_return ==
    /\ pc = "done" /\ Entry = "to_string"
    /\ calls' = Append(calls, [fn |-> "to_string", ok |-> IsOk(ser.output),
                               err |-> ser.output.err,
                               val |-> IF IsOk(ser.output) THEN SinkText ELSE <<>>,
                               out |-> <<>>, sink |-> [bounded |-> FALSE, cap |-> 0,
                                                       pre |-> <<>>]])
    /\ Start(String_with_capacity)

\* to_vec: let string = to_string(value)?; Ok(string.into()). The caller then
\* formats display(value) into some sink.
to_vec_return ==
    /\ pc = "done" /\ Entry = "to_vec"
    /\ calls' = Append(calls, [fn |-> "to_vec", ok |-> IsOk(ser.output),
                               err |-> ser.output.err,
                               val |-> IF IsOk(ser.output) THEN Utf8(SinkText) ELSE <<>>,
                               out |-> <<>>, sink |-> [bounded |-> FALSE, cap |-> 0,
                                                       pre |-> <<>>]])
    /\ \E sink \in Sinks : Start(sink)

\* impl Display for DisplaySerializer: fmt maps every error to fmt::Error.
display_fmt_return ==
    /\ pc = "done" /\ Entry = "display"
    /\ calls' = Append(calls, [fn |-> "display", ok |-> IsOk(ser.output),
                               err |-> IF IsOk(ser.output) THEN OkE
                                       ELSE [kind |-> "fmt::Error", got |-> ""],
                               val |-> <<>>, out |-> Output,
                               sink |-> [bounded |-> ser.output.bounded,
                                         cap |-> ser.output.cap, pre |-> pre]])
    /\ pc' = "end"
    /\ UNCHANGED <<root, pre, cur, ser, idx>>

\* The values the caller encodes: one of each shape the handlers tell apart,
\* with and without errors.
CallRoots ==
    UnitRoots \cup WrappedRoots \cup NestedVariantRoots \cup FailingRoots \cup BytesRoots
    \cup {BoolOf(TRUE), IntOf("i128", 7), StrOf(S_quoted),
          MapOf(<<Pair(StrOf(K_sep), StrOf(S_mixed)), Pair(IntOf("i64", 0 - 7), None)>>),
          MapOf(<<Pair(StrOf(K_id), StrOf(S_quoted)), Pair(NaN, BoolOf(TRUE))>>),
          StructOf(<<>>),
          StructOf(<<Pair(K_id, StrOf(S_mixed)), Pair(K_esc, SeqOf(<<StrOf(S_quoted)>>))>>),
          StructOf(<<Pair(K_id, Skipped), Pair(K_sep, CharOf(233))>>),
          NewtypeVariant(K_esc, StrOf(S_mixed)),
          TupleVariant(T_Complete, <<IntOf("u32", 404), StrOf(S_mixed)>>),
          StructVariant(K_esc, <<Pair(K_id, None), Pair(K_sep, Skipped),
                                 Pair(K_esc, StrOf(S_quoted))>>)}

\* The first call: to_writer(sink, root).
InitCalls ==
    /\ root \in CallRoots
    /\ \E sink \in Sinks : pre = sink.buf /\ ser = Serializer_new(sink)
    /\ cur = root
    /\ pc = "start"
    /\ idx = 0
    /\ calls = <<>>

NextCalls ==
    \/ Next
    \/ to_writer_return
    \/ to_string_return
    \/ to_vec_return
    \/ display_fmt_return

SpecCalls == InitCalls /\ [][NextCalls]_vars

TypeOK ==
    /\ pc \in {"start", "map_key", "map_value", "struct", "tuple_variant",
               "struct_variant", "done", "end"}
    /\ Len(calls) <= Len(Entries)
    /\ idx \in 0..(MaxPairs + 1)
    /\ Len(pre) <= Len(SinkText)
    /\ SubSeq(SinkText, 1, Len(pre)) = pre

\* ------------------------------------------------------------------ reference renderings
\* What the wire format prescribes, computed on whole texts with no writer
\* layering: the claims compare the encoder's output with these.

RECURSIVE ConcatRange(_, _, _)
ConcatRange(ss, lo, hi) ==
    IF lo > hi THEN <<>>
    ELSE IF lo = hi THEN ss[lo]
    ELSE LET mid == (lo + hi) \div 2
         IN  ConcatRange(ss, lo, mid) \o ConcatRange(ss, mid + 1, hi)
\* The concatenation of a sequence of sequences.
Concat(ss) == ConcatRange(ss, 1, Len(ss))

\* The parts joined by sep.
JoinWith(parts, sep) ==
    Concat([i \in 1..Len(parts) |-> IF i = 1 THEN parts[i] ELSE sep \o parts[i]])

\* The unreserved set [A-Za-z0-9-._~].
Unreserved(b) == b \in (48..57) \cup (65..90) \cup (97..122) \cup {45, 46, 95, 126}

RefHex == <<48, 49, 50, 51, 52, 53, 54, 55, 56, 57, 65, 66, 67, 68, 69, 70>>

RefUtf8(text) ==
    Concat([i \in 1..Len(text) |->
               IF text[i] < 128 THEN <<text[i]>>
               ELSE <<192 + (text[i] \div 64), 128 + (text[i] % 64)>>])

\* Percent-encoding of a text, byte by byte of its UTF-8.
RefPercent(text) ==
    LET b == RefUtf8(text)
    IN  Concat([i \in 1..Len(b) |->
                   IF Unreserved(b[i]) THEN <<b[i]>>
                   ELSE <<37, RefHex[(b[i] \div 16) + 1], RefHex[(b[i] % 16) + 1]>>])

\* JSON string escaping of one character.
RefEscapeChar(c) ==
    CASE c = 34 -> <<92, 34>>
      [] c = 92 -> <<92, 92>>
      [] c = 8 -> <<92, 98>>
      [] c = 9 -> <<92, 116>>
      [] c = 10 -> <<92, 110>>
      [] c = 12 -> <<92, 102>>
      [] c = 13 -> <<92, 114>>
      [] c < 32 /\ c \notin {8, 9, 10, 12, 13} ->
            <<92, 117, 48, 48, RefHex[(c \div 16) + 1], RefHex[(c % 16) + 1]>>
      [] OTHER -> <<c>>

\* A JSON string literal: quote, escaped text, quote.
RefQuoted(text) ==
    <<34>> \o Concat([i \in 1..Len(text) |-> RefEscapeChar(text[i])]) \o <<34>>

RECURSIVE RefKeyText(_)
\* The text of a scalar or string key.
RefKeyText(k) ==
    CASE k.t = "str" -> k.s
      [] k.t = "char" -> <<k.c>>
      [] k.t = "unit_variant" -> k.variant
      [] k.t \in {"some", "newtype_struct"} -> RefKeyText(k.inner)
      [] k.t = "bool" -> IF k.b THEN TRUE_LIT ELSE FALSE_LIT
      [] k.t = "int" -> Itoa(k.n)
      [] k.t = "float" -> Ryu(k.tenths)

RECURSIVE RefJson(_)
\* The JSON text of a value: every string quoted and escaped.
RefJson(v) ==
    CASE v.t = "bool" -> IF v.b THEN TRUE_LIT ELSE FALSE_LIT
      [] v.t = "int" -> Itoa(v.n)
      [] v.t = "float" -> IF v.cls = "finite" THEN Ryu(v.tenths) ELSE NULL_LIT
      [] v.t = "char" -> RefQuoted(<<v.c>>)
      [] v.t = "str" -> RefQuoted(v.s)
      [] v.t = "unit_variant" -> RefQuoted(v.variant)
      [] v.t = "bytes" ->
            <<91>> \o JoinWith([i \in 1..Len(v.bytes) |-> Itoa(v.bytes[i])], <<44>>) \o <<93>>
      [] v.t \in {"unit", "unit_struct", "none"} -> NULL_LIT
      [] v.t \in {"some", "newtype_struct"} -> RefJson(v.inner)
      [] v.t \in {"seq", "tuple", "tuple_struct"} ->
            <<91>> \o JoinWith([i \in 1..Len(v.items) |-> RefJson(v.items[i])], <<44>>) \o <<93>>
      [] v.t = "map" ->
            <<123>>
            \o JoinWith([i \in 1..Len(v.pairs) |->
                            RefQuoted(RefKeyText(v.pairs[i].key)) \o <<58>>
                            \o RefJson(v.pairs[i].value)], <<44>>)
            \o <<125>>
      [] v.t = "struct" ->
            LET members == SelectSeq(v.pairs, LAMBDA p : p.value.t # "skipped")
            IN  <<123>>
                \o JoinWith([i \in 1..Len(members) |->
                                RefQuoted(members[i].key) \o <<58>>
                                \o RefJson(members[i].value)], <<44>>)
                \o <<125>>
      [] v.t = "newtype_variant" ->
            <<123>> \o RefQuoted(v.variant) \o <<58>> \o RefJson(v.inner) \o <<125>>
      [] v.t = "tuple_variant" ->
            <<123>> \o RefQuoted(v.variant) \o <<58>>
            \o RefJson([t |-> "seq", items |-> v.items]) \o <<125>>
      [] v.t = "struct_variant" ->
            <<123>> \o RefQuoted(v.variant) \o <<58>>
            \o RefJson([t |-> "struct", pairs |-> v.pairs]) \o <<125>>

RECURSIVE RefTopLevel(_)
\* The text of a value in top-level-value mode: a string stands bare.
RefTopLevel(v) ==
    CASE v.t = "str" -> v.s
      [] v.t = "char" -> <<v.c>>
      [] v.t = "unit_variant" -> v.variant
      [] v.t \in {"some", "newtype_struct"} -> RefTopLevel(v.inner)
      [] OTHER -> RefJson(v)

\* ------------------------------------------------------------------ what the encoder emits
\* What the sink receives for one key or value when nothing fails.
Emitted(effect) == Concat(effect.chunks)
KeySegment(key) == Emitted(KeySerializerNoQuotes("pe", key))
ValueSegment(value) == Emitted(JsonSerializer(value, TRUE))

\* The pairs of a root map or record, keys as values.
RootPairs ==
    IF Shape.t = "struct" THEN FieldEntries(Shape.pairs)
    ELSE IF Shape.t = "map" THEN Shape.pairs
    ELSE <<>>
IsPairsRoot == Shape.t \in {"map", "struct"}

\* pair ("&" pair)* with the given key and value segments.
FormBody(keys, values) ==
    JoinWith([i \in 1..Len(keys) |-> keys[i] \o <<61>> \o values[i]], <<38>>)

Count(s, x) == Cardinality({i \in 1..Len(s) : s[i] = x})

\* ------------------------------------------------------------------ claims
\* C1: a successful encode of a root map or record appends exactly its pairs
\* in order, each as key "=" value, joined by "&" with none leading or
\* trailing; a root with no pairs appends nothing.
Thm_C1 ==
    (Succeeded /\ IsPairsRoot) =>
        Output = FormBody([i \in 1..Len(RootPairs) |-> KeySegment(RootPairs[i].key)],
                          [i \in 1..Len(RootPairs) |-> ValueSegment(RootPairs[i].value)])
\* Two pairs were written, with one "&" between them.
Wit_C1 ==
    /\ Succeeded /\ IsPairsRoot
    /\ Len(RootPairs) = 2
    /\ Count(Output, AMP) = 1
    /\ Output[1] # AMP /\ Output[Len(Output)] # AMP

\* The root shapes the top-level Serializer names when it rejects them.
RejectedName(v) ==
    CASE v.t = "bool" -> "bool"
      [] v.t \in {"int", "float"} -> v.w
      [] v.t = "char" -> "char"
      [] v.t = "str" -> "str"
      [] v.t = "bytes" -> "bytes"
      [] v.t = "seq" -> "Seq"
      [] v.t = "tuple" -> "Tuple"
      [] v.t = "tuple_struct" -> "TupleStruct"
      [] v.t = "unit_variant" -> "UnitVariant"
      [] OTHER -> ""
IsWideInt(v) == v.t = "int" /\ v.w \in {"i128", "u128"}
IsUnitRoot(v) == v.t \in {"unit", "unit_struct", "none"}
IsRejectedRoot(v) ==
    /\ v.t \in {"bool", "int", "float", "char", "str", "bytes", "seq", "tuple",
                "tuple_struct", "unit_variant"}
    /\ ~IsWideInt(v)

Thm_C3 == (Done /\ IsUnitRoot(Shape)) => (Result = OkE /\ Output = <<>>)
\* A None root was encoded into a sink that already held text.
Wit_C3 == Succeeded /\ Shape.t = "none" /\ pre # <<>> /\ SinkText = pre

\* C4: when the root is rejected as not an object, the sink holds exactly
\* what it held before the call.
Thm_C4 == (Done /\ Result.kind = "NotAnObject") => SinkText = pre
\* A sequence root was rejected and the sink still holds its earlier text.
Wit_C4 ==
    /\ Done /\ Shape.t = "seq" /\ Len(Shape.items) > 0
    /\ Result.kind = "NotAnObject"
    /\ pre # <<>> /\ SinkText = pre

\* The root variants that carry a payload, and the tag each is keyed by.
IsVariantRoot == Shape.t \in {"newtype_variant", "tuple_variant", "struct_variant"}
Prefix(s, n) == SubSeq(s, 1, n)

\* What a form key should read: a text key percent-encoded as it stands.
FormKey(key) ==
    IF key.t = "str" THEN RefPercent(key.s) ELSE KeySegment(key)

\* C5: a form key (the key of a root map or record pair, or the tag of a root
\* variant) is written as the percent-encoding of its raw text, with no
\* quotes around it and no JSON escaping of it.
Thm_C5 ==
    Succeeded =>
        /\ IsPairsRoot =>
              Output = FormBody(
                           [i \in 1..Len(RootPairs) |-> FormKey(RootPairs[i].key)],
                           [i \in 1..Len(RootPairs) |-> ValueSegment(RootPairs[i].value)])
        /\ IsVariantRoot =>
              Prefix(Output, Len(RefPercent(Shape.variant)) + 1)
                  = RefPercent(Shape.variant) \o <<EQ>>
\* A record whose first field is named `"\<LF>é` was written: the key reads
\* %22%5C%0A%C3%A9, followed by "=".
Wit_C5 ==
    /\ Succeeded /\ Shape.t = "struct" /\ Len(Shape.pairs) > 0
    /\ Shape.pairs[1].key = K_esc
    /\ Prefix(Output, 16) = <<37, 50, 50, 37, 53, 67, 37, 48, 65, 37, 67, 51,
                              37, 65, 57, 61>>

\* A value that is a string once its Option / newtype-struct wrappers are off.
IsBareString(v) == Unwrapped(v).t = "str"
IsComposite(v) ==
    Unwrapped(v).t \in {"seq", "tuple", "tuple_struct", "map", "struct",
                        "newtype_variant", "tuple_variant", "struct_variant"}
\* C7: inside a field value that is an array, an object or a variant, every
\* string at every depth is written as %22, the percent-encoded JSON-escaped
\* text, %22: the value segment is the percent-encoding of the value's JSON
\* text, in which every string is quoted and escaped.
Thm_C7 ==
    (Succeeded /\ IsPairsRoot) =>
        Output = FormBody(
                     [i \in 1..Len(RootPairs) |-> KeySegment(RootPairs[i].key)],
                     [i \in 1..Len(RootPairs) |->
                         IF IsComposite(RootPairs[i].value)
                         THEN RefPercent(RefJson(RootPairs[i].value))
                         ELSE ValueSegment(RootPairs[i].value)])
\* The field id = [["a \"b\""]] was written: the string two arrays deep is
\* quoted and its quotes are escaped.
Wit_C7 ==
    /\ Succeeded
    /\ Shape = StructOf(<<Pair(K_id, SeqOf(<<SeqOf(<<StrOf(S_quoted)>>)>>))>>)
    /\ Output = <<105, 100, 61>>
                \o RefPercent(<<91, 91, 34, 97, 32, 92, 34, 98, 92, 34, 34, 93, 93>>)

\* The number of form pairs of the root.
NPairs == IF IsPairsRoot THEN Len(RootPairs) ELSE IF IsVariantRoot THEN 1 ELSE 0
IsHex(b) == b \in (48..57) \cup (65..70)
\* Every byte is unreserved, a separator, or the "%" of a %XX triplet.
WellFormed(out) ==
    \A i \in 1..Len(out) :
        \/ Unreserved(out[i])
        \/ out[i] \in {AMP, EQ}
        \/ (out[i] = PERCENT /\ i + 2 <= Len(out) /\ IsHex(out[i + 1]) /\ IsHex(out[i + 2]))
Thm_C9 ==
    (Succeeded /\ Shape.t = "newtype_variant") =>
        Output = RefPercent(Shape.variant) \o <<EQ>>
                 \o RefPercent(RefTopLevel(Shape.inner))
\* Complete(404) was written as Complete=404.
Wit_C9 ==
    /\ Succeeded /\ Shape = NewtypeVariant(T_Complete, IntOf("u32", 404))
    /\ Output = <<67, 111, 109, 112, 108, 101, 116, 101, 61, 52, 48, 52>>

\* C10: a tuple variant root is written as the tag, "=", and the
\* percent-encoded JSON array of its elements; a struct variant root as the
\* tag, "=", and the percent-encoded JSON object of its fields; strings in
\* the payload are quoted and no {"tag": ...} object surrounds it.
Thm_C10 ==
    Succeeded =>
        /\ Shape.t = "tuple_variant" =>
              Output = RefPercent(Shape.variant) \o <<EQ>>
                       \o RefPercent(RefJson(SeqOf(Shape.items)))
        /\ Shape.t = "struct_variant" =>
              Output = RefPercent(Shape.variant) \o <<EQ>>
                       \o RefPercent(RefJson(StructOf(Shape.pairs)))
\* Complete(404, "=&\<U+0001>~") was written as Complete= and the encoded
\* array [404,"=&\\\u0001~"].
Wit_C10 ==
    /\ Succeeded
    /\ Shape = TupleVariant(T_Complete, <<IntOf("u32", 404), StrOf(S_mixed)>>)
    /\ Output = T_Complete \o <<EQ>>
                \o RefPercent(<<91, 52, 48, 52, 44, 34, 61, 38, 92, 92, 92, 117, 48, 48,
                                48, 49, 126, 34, 93>>)

\* A key that is certainly text: a string, char, unit variant, boolean,
\* integer or finite float, behind Option / newtype-struct wrappers or not.
PlainKey(k) ==
    LET u == Unwrapped(k)
    IN  \/ u.t \in {"str", "char", "unit_variant", "bool", "int"}
        \/ (u.t = "float" /\ u.cls = "finite")

RECURSIVE KeysPlain(_)
\* Every key of every map inside v is plain.
KeysPlain(v) ==
    CASE v.t \in {"some", "newtype_struct", "newtype_variant"} -> KeysPlain(v.inner)
      [] v.t \in {"seq", "tuple", "tuple_struct", "tuple_variant"} ->
            \A i \in 1..Len(v.items) : KeysPlain(v.items[i])
      [] v.t = "map" ->
            \A i \in 1..Len(v.pairs) :
                PlainKey(v.pairs[i].key) /\ KeysPlain(v.pairs[i].value)
      [] v.t \in {"struct", "struct_variant"} ->
            \A i \in 1..Len(v.pairs) : KeysPlain(v.pairs[i].value)
      [] OTHER -> TRUE

RECURSIVE HasNonFinite(_)
\* v is, or holds as an element, object value or payload, a non-finite float.
HasNonFinite(v) ==
    CASE v.t = "float" -> v.cls # "finite"
      [] v.t \in {"some", "newtype_struct", "newtype_variant"} -> HasNonFinite(v.inner)
      [] v.t \in {"seq", "tuple", "tuple_struct", "tuple_variant"} ->
            \E i \in 1..Len(v.items) : HasNonFinite(v.items[i])
      [] v.t \in {"map", "struct", "struct_variant"} ->
            \E i \in 1..Len(v.pairs) : HasNonFinite(v.pairs[i].value)
      [] OTHER -> FALSE

\* The sink is a String: it accepts every write.
Unbounded == ~ser.output.bounded
\* The root is a map or record whose keys, at every depth, are plain.
PlainPairsRoot ==
    /\ IsPairsRoot
    /\ \A i \in 1..Len(RootPairs) :
           PlainKey(RootPairs[i].key) /\ KeysPlain(RootPairs[i].value)

\* C11: a non-finite float that is a field value of the root, or nested in
\* one at any depth, does not fail the encode and is written as null, never
\* as a float literal.
Thm_C11 ==
    (Done /\ Unbounded /\ PlainPairsRoot
          /\ \E i \in 1..Len(RootPairs) : HasNonFinite(RootPairs[i].value)) =>
        /\ Result = OkE
        /\ Output = FormBody(
                        [i \in 1..Len(RootPairs) |-> KeySegment(RootPairs[i].key)],
                        [i \in 1..Len(RootPairs) |->
                            IF HasNonFinite(RootPairs[i].value)
                            THEN RefPercent(RefTopLevel(RootPairs[i].value))
                            ELSE ValueSegment(RootPairs[i].value)])
\* The field id = [-12, NaN] was written as id=%5B-12%2Cnull%5D.
Wit_C11 ==
    /\ Succeeded
    /\ Shape = StructOf(<<Pair(K_id, SeqOf(<<IntOf("i32", 0 - 12), NaN>>))>>)
    /\ Output = <<105, 100, 61, 37, 53, 66, 45, 49, 50, 37, 50, 67,
                  110, 117, 108, 108, 37, 53, 68>>

RECURSIVE AllKeys(_)
\* The keys of the maps inside v, in the order the traversal presents them.
AllKeys(v) ==
    CASE v.t \in {"some", "newtype_struct", "newtype_variant"} -> AllKeys(v.inner)
      [] v.t \in {"seq", "tuple", "tuple_struct", "tuple_variant"} ->
            Concat([i \in 1..Len(v.items) |-> AllKeys(v.items[i])])
      [] v.t = "map" ->
            Concat([i \in 1..Len(v.pairs) |->
                       <<v.pairs[i].key>> \o AllKeys(v.pairs[i].value)])
      [] v.t \in {"struct", "struct_variant"} ->
            Concat([i \in 1..Len(v.pairs) |-> AllKeys(v.pairs[i].value)])
      [] OTHER -> <<>>
\* The keys the encode of the root meets, form keys and object keys alike.
RootKeys == AllKeys(Shape)
\* The first key that is not plain, when there is one.
HasOffendingKey == \E i \in 1..Len(RootKeys) : ~PlainKey(RootKeys[i])
FirstOffendingKey ==
    LET i == CHOOSE j \in 1..Len(RootKeys) :
                 /\ ~PlainKey(RootKeys[j])
                 /\ \A h \in 1..(j - 1) : PlainKey(RootKeys[h])
    IN  Unwrapped(RootKeys[i])
RECURSIVE Fails(_)
\* v is, or holds at some depth as a key, element, member or payload, a value
\* whose adapter raises an error of its own.
Fails(v) ==
    CASE v.t = "fail" -> TRUE
      [] v.t \in {"some", "newtype_struct", "newtype_variant"} -> Fails(v.inner)
      [] v.t \in {"seq", "tuple", "tuple_struct", "tuple_variant"} ->
            \E i \in 1..Len(v.items) : Fails(v.items[i])
      [] v.t = "map" ->
            \E i \in 1..Len(v.pairs) : Fails(v.pairs[i].key) \/ Fails(v.pairs[i].value)
      [] v.t \in {"struct", "struct_variant"} ->
            \E i \in 1..Len(v.pairs) : Fails(v.pairs[i].value)
      [] OTHER -> FALSE
\* The root is a map, a record or a variant, and no adapter in it raises an
\* error of its own.
IsObjectRoot == (IsPairsRoot \/ IsVariantRoot) /\ ~Fails(Shape)

\* C12: a non-finite float met as a key, as a form key of the root map or as
\* a key of an object nested in a value, fails the encode with
\* FloatKeyMustBeFinite.
Thm_C12 ==
    (Done /\ Unbounded /\ IsObjectRoot /\ HasOffendingKey
          /\ FirstOffendingKey.t = "float") =>
        Result = [kind |-> "FloatKeyMustBeFinite", got |-> ""]
\* A record whose field holds [{"k=&": null, NaN: true}] failed on the NaN
\* key after the earlier entry had been written.
Wit_C12 ==
    /\ Done /\ Shape = StructOf(<<Pair(K_id, SeqOf(<<MapWith(NaN)>>))>>)
    /\ Result.kind = "FloatKeyMustBeFinite"
    /\ Len(Output) > 3

\* The name the key encoder gives a composite key.
CompositeShapeName(k) ==
    CASE k.t = "bytes" -> "bytes"
      [] k.t = "seq" -> "Seq"
      [] k.t = "tuple" -> "Tuple"
      [] k.t = "tuple_struct" -> "TupleStruct"
      [] k.t = "map" -> "Map"
      [] k.t = "struct" -> "struct"
      [] k.t = "newtype_variant" -> "NewtypeVariant"
      [] k.t = "tuple_variant" -> "TupleVariant"
      [] k.t = "struct_variant" -> "StructVariant"
      [] OTHER -> ""
IsCompositeKey(k) == CompositeShapeName(k) # ""
\* C13: a key that resolves to a sequence, tuple, tuple struct, map, record,
\* byte sequence or a newtype / tuple / struct variant fails the encode with
\* KeyMustBeAString naming the shape, as a form key of the root map and as a
\* key of a nested object.
Thm_C13 ==
    (Done /\ Unbounded /\ IsObjectRoot /\ HasOffendingKey
          /\ IsCompositeKey(FirstOffendingKey)) =>
        Result = [kind |-> "KeyMustBeAString", got |-> CompositeShapeName(FirstOffendingKey)]
\* A root map whose second key is a tuple variant failed with
\* KeyMustBeAString("TupleVariant").
Wit_C13 ==
    /\ Done /\ Shape.t = "map" /\ Len(Shape.pairs) = 2
    /\ Shape.pairs[2].key.t = "tuple_variant"
    /\ Result = [kind |-> "KeyMustBeAString", got |-> "TupleVariant"]

IsEmptyKey(k) == k.t \in {"unit", "none", "unit_struct"}
EmptyShapeName(k) ==
    CASE k.t = "unit" -> "()"
      [] k.t = "none" -> "Option::<T>::None"
      [] k.t = "unit_struct" -> "UnitStruct"
\* A key error of either kind.
IsKeyError(e) == e.kind \in {"KeyMustBeAString", "FloatKeyMustBeFinite"}

\* C14 as stated: a key that is a boolean, an integer, a finite float, a
\* char, a unit struct, unit / None or a string never causes a key error.
Orig_C14 ==
    (Done /\ Unbounded /\ IsObjectRoot
          /\ \A i \in 1..Len(RootKeys) :
                 PlainKey(RootKeys[i]) \/ IsEmptyKey(Unwrapped(RootKeys[i]))) =>
        ~IsKeyError(Result)
\* C14, amended: a key that is a boolean, an integer, a finite float, a char
\* or a string is accepted and written as its text; a key that is unit, None
\* or a unit struct fails with KeyMustBeAString naming the shape, as
\* composite keys do.
Thm_C14 ==
    (Done /\ Unbounded /\ IsObjectRoot) =>
        /\ ~HasOffendingKey => Result = OkE
        /\ (~HasOffendingKey /\ Shape.t = "map") =>
              Output = FormBody(
                  [i \in 1..Len(Shape.pairs) |-> RefPercent(RefKeyText(Shape.pairs[i].key))],
                  [i \in 1..Len(Shape.pairs) |-> ValueSegment(Shape.pairs[i].value)])
        /\ (HasOffendingKey /\ IsEmptyKey(FirstOffendingKey)) =>
              Result = [kind |-> "KeyMustBeAString", got |-> EmptyShapeName(FirstOffendingKey)]
\* A root map with the keys -7 and false was written as -7=404&false=404.
Wit_C14 ==
    /\ Succeeded
    /\ Shape = MapOf(<<Pair(IntOf("i64", 0 - 7), IntOf("u32", 404)),
                       Pair(BoolOf(FALSE), IntOf("u32", 404))>>)
    /\ Output = <<45, 55, 61, 52, 48, 52, 38, 102, 97, 108, 115, 101, 61, 52, 48, 52>>

\* A value that is unit, None or a unit struct once its wrappers are off.
IsNullValue(v) == Unwrapped(v).t \in {"unit", "none", "unit_struct"}
\* C15: a field of the root whose value is unit or None is not left out: it
\* is written as the pair key=null, in its place among the other pairs.
Thm_C15 ==
    (Succeeded /\ IsPairsRoot) =>
        Output = FormBody(
                     [i \in 1..Len(RootPairs) |-> KeySegment(RootPairs[i].key)],
                     [i \in 1..Len(RootPairs) |->
                         IF IsNullValue(RootPairs[i].value)
                         THEN <<110, 117, 108, 108>>
                         ELSE ValueSegment(RootPairs[i].value)])
\* The record {id: None, k=&: 404} was written as id=null&k%3D%26=404.
Wit_C15 ==
    /\ Succeeded
    /\ Shape = StructOf(<<Pair(K_id, None), Pair(K_sep, IntOf("u32", 404))>>)
    /\ Output = <<105, 100, 61, 110, 117, 108, 108, 38,
                  107, 37, 51, 68, 37, 50, 54, 61, 52, 48, 52>>

\* A variant that carries a payload, behind Option / newtype-struct wrappers
\* or not.
IsPayloadVariant(v) ==
    Unwrapped(v).t \in {"newtype_variant", "tuple_variant", "struct_variant"}
\* The JSON text of the payload of a variant: the value itself, the array of
\* the elements, or the object of the fields.
PayloadJson(u) ==
    CASE u.t = "newtype_variant" -> RefJson(u.inner)
      [] u.t = "tuple_variant" ->
            <<91>> \o JoinWith([i \in 1..Len(u.items) |-> RefJson(u.items[i])], <<44>>)
            \o <<93>>
      [] u.t = "struct_variant" ->
            <<123>>
            \o JoinWith([i \in 1..Len(u.pairs) |->
                            RefQuoted(u.pairs[i].key) \o <<58>>
                            \o RefJson(u.pairs[i].value)], <<44>>)
            \o <<125>>
\* {"Name":payload}
TaggedJson(u) == <<123>> \o RefQuoted(u.variant) \o <<58>> \o PayloadJson(u) \o <<125>>
\* An array whose last element is a unit variant.
EndsInUnitVariant(v) ==
    /\ v.t = "seq" /\ Len(v.items) > 0
    /\ v.items[Len(v.items)].t = "unit_variant"
EndsWith(s, tail) ==
    /\ Len(tail) <= Len(s)
    /\ SubSeq(s, Len(s) - Len(tail) + 1, Len(s)) = tail

\* C16: a variant with a newtype, tuple or struct payload that is a field
\* value of the root, or nested deeper, is written as the JSON object
\* {"Name":payload} whose only key is the tag, the payload an array for a
\* tuple variant and an object for a struct variant; a unit variant nested
\* in an array or object is written as the quoted tag.
Thm_C16 ==
    (Succeeded /\ IsPairsRoot) =>
        /\ Output = FormBody(
                        [i \in 1..Len(RootPairs) |-> KeySegment(RootPairs[i].key)],
                        [i \in 1..Len(RootPairs) |->
                            IF IsPayloadVariant(RootPairs[i].value)
                            THEN RefPercent(TaggedJson(Unwrapped(RootPairs[i].value)))
                            ELSE ValueSegment(RootPairs[i].value)])
        /\ (Len(RootPairs) = 1 /\ EndsInUnitVariant(RootPairs[1].value)) =>
              LET items == RootPairs[1].value.items
              IN  EndsWith(Output,
                           RefPercent(RefQuoted(items[Len(items)].variant) \o <<93>>))
\* The field id = id(1.5) behind Some, a struct variant with the field id,
\* was written as id=%7B%22id%22%3A%7B%22id%22%3A1.5%7D%7D.
Wit_C16 ==
    /\ Succeeded
    /\ Shape = StructOf(<<Pair(K_id,
                   Some(StructVariant(K_id, <<Pair(K_id, FloatOf("f64", "finite", 15))>>)))>>)
    /\ Output = <<105, 100, 61>>
                \o RefPercent(<<123, 34, 105, 100, 34, 58, 123, 34, 105, 100, 34, 58,
                                49, 46, 53, 125, 125>>)

\* The decimal digits of a byte.
RefDecimal(b) ==
    IF b >= 100 THEN <<48 + (b \div 100), 48 + ((b \div 10) % 10), 48 + (b % 10)>>
    ELSE IF b >= 10 THEN <<48 + (b \div 10), 48 + (b % 10)>>
    ELSE <<48 + b>>
\* %5B b1 %2C ... %2C bn %5D
RefByteArray(bytes) ==
    <<37, 53, 66>>
    \o JoinWith([i \in 1..Len(bytes) |-> RefDecimal(bytes[i])], <<37, 50, 67>>)
    \o <<37, 53, 68>>
IsBytes(v) == Unwrapped(v).t = "bytes"
\* An array whose elements are all byte sequences.
IsSeqOfBytes(v) == v.t = "seq" /\ \A i \in 1..Len(v.items) : v.items[i].t = "bytes"

\* C17: a byte sequence of n bytes is written as the JSON array of its
\* decimal byte values in order, with n - 1 commas, [] when empty, brackets
\* and commas percent-encoded, and never as a string; so is a byte sequence
\* that is an element of an array.
Thm_C17 ==
    (Succeeded /\ IsPairsRoot) =>
        Output = FormBody(
                     [i \in 1..Len(RootPairs) |-> KeySegment(RootPairs[i].key)],
                     [i \in 1..Len(RootPairs) |->
                         LET v == RootPairs[i].value
                         IN  IF IsBytes(v) THEN RefByteArray(Unwrapped(v).bytes)
                             ELSE IF IsSeqOfBytes(v)
                             THEN <<37, 53, 66>>
                                  \o JoinWith([j \in 1..Len(v.items) |->
                                                  RefByteArray(v.items[j].bytes)],
                                              <<37, 50, 67>>)
                                  \o <<37, 53, 68>>
                             ELSE ValueSegment(v)])
\* The field id = bytes 10, 20, 30 was written as id=%5B10%2C20%2C30%5D.
Wit_C17 ==
    /\ Succeeded
    /\ Shape = StructOf(<<Pair(K_id, BytesOf(<<10, 20, 30>>))>>)
    /\ Output = <<105, 100, 61, 37, 53, 66, 49, 48, 37, 50, 67, 50, 48, 37, 50, 67,
                  51, 48, 37, 53, 68>>
    /\ Count(Output, 67) = 2

\* ------------------------------------------------------------------ reading the output back
\* The parts of s between the occurrences of sep; no part for the empty s.
SplitOn(s, sep) ==
    LET at == {i \in 1..Len(s) : s[i] = sep}
        k == Cardinality(at)
        pos(j) == IF j = 0 THEN 0
                  ELSE IF j = k + 1 THEN Len(s) + 1
                  ELSE CHOOSE i \in at : Cardinality({h \in at : h <= i}) = j
    IN  IF s = <<>> THEN <<>>
        ELSE [j \in 1..(k + 1) |-> SubSeq(s, pos(j - 1) + 1, pos(j) - 1)]

HexValue(b) == IF b >= 65 THEN b - 55 ELSE b - 48
RECURSIVE PercentDecode(_)
\* The bytes a percent-encoded segment stands for.
PercentDecode(s) ==
    IF s = <<>> THEN <<>>
    ELSE IF s[1] = 37 /\ Len(s) >= 3
         THEN <<16 * HexValue(s[2]) + HexValue(s[3])>> \o PercentDecode(SubSeq(s, 4, Len(s)))
         ELSE <<s[1]>> \o PercentDecode(Tail(s))
RECURSIVE Utf8Decode(_)
\* The code points of UTF-8 bytes (one- and two-byte sequences).
Utf8Decode(b) ==
    IF b = <<>> THEN <<>>
    ELSE IF b[1] >= 192 /\ Len(b) >= 2
         THEN <<(b[1] - 192) * 64 + (b[2] - 128)>> \o Utf8Decode(SubSeq(b, 3, Len(b)))
         ELSE <<b[1]>> \o Utf8Decode(Tail(b))
DecodeSegment(s) == Utf8Decode(PercentDecode(s))

IsDigits(t) == t # <<>> /\ \A i \in 1..Len(t) : t[i] \in 48..57
RECURSIVE DigitsValue(_)
DigitsValue(t) ==
    IF t = <<>> THEN 0 ELSE 10 * DigitsValue(SubSeq(t, 1, Len(t) - 1)) + (t[Len(t)] - 48)
\* A JSON scalar read from its text: null, a boolean, an integer, a decimal
\* with one fractional digit, or a string without escapes; anything else is
\* no JSON scalar of these inputs.
JsonParse(t) ==
    LET neg == t # <<>> /\ t[1] = 45
        body == IF neg THEN Tail(t) ELSE t
        sign == IF neg THEN 0 - 1 ELSE 1
        n == Len(body)
    IN  IF t = <<110, 117, 108, 108>> THEN [t |-> "null"]
        ELSE IF t = <<116, 114, 117, 101>> THEN [t |-> "bool", b |-> TRUE]
        ELSE IF t = <<102, 97, 108, 115, 101>> THEN [t |-> "bool", b |-> FALSE]
        ELSE IF IsDigits(body) THEN [t |-> "int", n |-> sign * DigitsValue(body)]
        ELSE IF n >= 3 /\ body[n - 1] = 46 /\ IsDigits(SubSeq(body, 1, n - 2))
                /\ body[n] \in 48..57
             THEN [t |-> "float",
                   tenths |-> sign * (10 * DigitsValue(SubSeq(body, 1, n - 2)) + (body[n] - 48))]
        ELSE IF Len(t) >= 2 /\ t[1] = 34 /\ t[Len(t)] = 34
                /\ \A i \in 2..(Len(t) - 1) : t[i] \notin {34, 92} /\ t[i] >= 32
             THEN [t |-> "str", s |-> SubSeq(t, 2, Len(t) - 1)]
        ELSE [t |-> "invalid"]

\* The parsed JSON value is the field value v.
Reproduces(parsed, v) ==
    LET u == Unwrapped(v)
    IN  CASE u.t = "bool" -> parsed = [t |-> "bool", b |-> u.b]
          [] u.t = "int" -> parsed = [t |-> "int", n |-> u.n]
          [] u.t = "float" ->
                u.cls = "finite" /\ parsed = [t |-> "float", tenths |-> u.tenths]
          [] u.t \in {"unit", "none", "unit_struct"} -> parsed = [t |-> "null"]
          [] u.t = "char" -> parsed = [t |-> "str", s |-> <<u.c>>]
          [] OTHER -> FALSE

\* The output read back: split on "&", each pair on its "=", key and value
\* percent-decoded, the value parsed as JSON; the pairs are those of the root.
RoundTrips ==
    LET parts == SplitOn(Output, AMP)
    IN  /\ Len(parts) = Len(RootPairs)
        /\ \A i \in 1..Len(parts) :
               LET kv == SplitOn(parts[i], EQ)
               IN  /\ Len(kv) = 2
                   /\ DecodeSegment(kv[1]) = RefKeyText(RootPairs[i].key)
                   /\ Reproduces(JsonParse(DecodeSegment(kv[2])), RootPairs[i].value)
IsScalar(v) ==
    Unwrapped(v).t \in {"bool", "int", "float", "char", "unit", "none", "unit_struct"}
\* A scalar whose JSON text reads back as itself.
IsJsonScalar(v) ==
    LET u == Unwrapped(v)
    IN  \/ u.t \in {"bool", "int", "unit", "none", "unit_struct"}
        \/ (u.t = "float" /\ u.cls = "finite")

IsSingleField == Shape.t = "struct" /\ Len(Shape.pairs) = 1
HasQuote(s) == \E i \in 1..Len(s) : s[i] = 34
ExpectedOutput ==
    CASE IsPairsRoot ->
            FormBody([i \in 1..Len(RootPairs) |-> RefPercent(RefKeyText(RootPairs[i].key))],
                     [i \in 1..Len(RootPairs) |->
                         RefPercent(RefTopLevel(RootPairs[i].value))])
      [] Shape.t = "newtype_variant" ->
            RefPercent(Shape.variant) \o <<61>> \o RefPercent(RefTopLevel(Shape.inner))
      [] Shape.t = "tuple_variant" ->
            RefPercent(Shape.variant) \o <<61>> \o RefPercent(RefJson(SeqOf(Shape.items)))
      [] Shape.t = "struct_variant" ->
            RefPercent(Shape.variant) \o <<61>> \o RefPercent(RefJson(StructOf(Shape.pairs)))
      [] OTHER -> <<>>
IsPrefix(s, t) == Len(s) <= Len(t) /\ SubSeq(t, 1, Len(s)) = s
\* The sink has rejected a write.
SinkFailed == ser.output.err = [kind |-> "Fmt", got |-> ""]

\* Once the sink has rejected a write the encode has returned, with the
\* sink's failure; what the sink took before it is the beginning of the
\* whole output, with nothing written after the rejected write; and an
\* encode whose output does not fit fails this way.
FailFast ==
    /\ SinkFailed => (Done /\ ser.output.bounded)
    /\ IsPrefix(pre, SinkText)
    /\ (Done /\ (IsObjectRoot \/ IsUnitRoot(Shape)) /\ ~HasOffendingKey) =>
          /\ IsPrefix(Output, ExpectedOutput)
          /\ SinkFailed <=> (ser.output.bounded /\ Len(ExpectedOutput) > ser.output.cap)
          /\ SinkFailed => Len(Output) < Len(ExpectedOutput)
          /\ ~SinkFailed => Result = OkE
\* C20: once the sink rejects a write the encode returns the sink-failure
\* error and attempts no later write; the bytes the sink accepted stay in
\* it: every step only appends to the sink.
Thm_C20 == []FailFast /\ [][IsPrefix(SinkText, SinkText')]_vars
\* A bounded sink took the beginning of the output and rejected the rest.
Wit_C20 ==
    /\ Done /\ SinkFailed /\ IsObjectRoot /\ ~HasOffendingKey
    /\ Output # <<>> /\ Len(Output) < Len(ExpectedOutput)
    /\ IsPrefix(Output, ExpectedOutput)

\* The error a key raises: its adapter's own, or the key encoder's.
KeyError(k) ==
    LET u == Unwrapped(k)
    IN  CASE u.t = "fail" -> <<[kind |-> "Message", got |-> u.msg]>>
          [] u.t = "float" /\ u.cls # "finite" ->
                <<[kind |-> "FloatKeyMustBeFinite", got |-> ""]>>
          [] IsEmptyKey(u) -> <<[kind |-> "KeyMustBeAString", got |-> EmptyShapeName(u)]>>
          [] IsCompositeKey(u) ->
                <<[kind |-> "KeyMustBeAString", got |-> CompositeShapeName(u)]>>
          [] OTHER -> <<>>
RECURSIVE Sites(_)
\* The errors the traversal of v can raise, in the order it meets them.
Sites(v) ==
    CASE v.t = "fail" -> <<[kind |-> "Message", got |-> v.msg]>>
      [] v.t \in {"some", "newtype_struct", "newtype_variant"} -> Sites(v.inner)
      [] v.t \in {"seq", "tuple", "tuple_struct", "tuple_variant"} ->
            Concat([i \in 1..Len(v.items) |-> Sites(v.items[i])])
      [] v.t = "map" ->
            Concat([i \in 1..Len(v.pairs) |->
                       KeyError(v.pairs[i].key) \o Sites(v.pairs[i].value)])
      [] v.t \in {"struct", "struct_variant"} ->
            Concat([i \in 1..Len(v.pairs) |-> Sites(v.pairs[i].value)])
      [] OTHER -> <<>>
\* An integer that occurs in no input, and its text.
MarkValue == [t |-> "int", w |-> "i32", n |-> 7777]
MarkText == <<55, 55, 55, 55>>
RECURSIVE Repaired(_)
\* v with the mark in place of every key and value that raises an error.
Repaired(v) ==
    CASE v.t = "fail" -> MarkValue
      [] v.t \in {"some", "newtype_struct", "newtype_variant"} ->
            [v EXCEPT !.inner = Repaired(v.inner)]
      [] v.t \in {"seq", "tuple", "tuple_struct", "tuple_variant"} ->
            [v EXCEPT !.items = [i \in 1..Len(v.items) |-> Repaired(v.items[i])]]
      [] v.t = "map" ->
            [v EXCEPT !.pairs =
                [i \in 1..Len(v.pairs) |->
                    [key |-> IF KeyError(v.pairs[i].key) = <<>> THEN v.pairs[i].key
                             ELSE MarkValue,
                     value |-> Repaired(v.pairs[i].value)]]]
      [] v.t \in {"struct", "struct_variant"} ->
            [v EXCEPT !.pairs =
                [i \in 1..Len(v.pairs) |->
                    [key |-> v.pairs[i].key, value |-> Repaired(v.pairs[i].value)]]]
      [] OTHER -> v
\* The whole output for a root v in which nothing fails.
FormText(v) ==
    CASE v.t = "map" ->
            FormBody([i \in 1..Len(v.pairs) |-> RefPercent(RefKeyText(v.pairs[i].key))],
                     [i \in 1..Len(v.pairs) |-> RefPercent(RefTopLevel(v.pairs[i].value))])
      [] v.t = "struct" ->
            FormBody([i \in 1..Len(v.pairs) |-> RefPercent(v.pairs[i].key)],
                     [i \in 1..Len(v.pairs) |-> RefPercent(RefTopLevel(v.pairs[i].value))])
      [] v.t = "newtype_variant" ->
            RefPercent(v.variant) \o <<61>> \o RefPercent(RefTopLevel(v.inner))
      [] v.t = "tuple_variant" ->
            RefPercent(v.variant) \o <<61>>
            \o RefPercent(RefJson([t |-> "seq", items |-> v.items]))
      [] v.t = "struct_variant" ->
            RefPercent(v.variant) \o <<61>>
            \o RefPercent(RefJson([t |-> "struct", pairs |-> v.pairs]))
      [] OTHER -> RefPercent(RefJson(v))
\* The part of text before the first mark.
BeforeMark(text) ==
    LET at == {i \in 1..Len(text) : i + 3 <= Len(text) /\ SubSeq(text, i, i + 3) = MarkText}
        first == CHOOSE i \in at : \A j \in at : i <= j
    IN  IF at = {} THEN text ELSE SubSeq(text, 1, first - 1)
\* The root is a map, record or variant (or fails on its own) and its
\* traversal meets an error.
MeetsError ==
    /\ IsPairsRoot \/ IsVariantRoot \/ Shape.t = "fail"
    /\ Sites(Shape) # <<>>
\* What the encode writes before the first error it meets.
WrittenBeforeError == BeforeMark(FormText(Repaired(Shape)))
\* A bounded sink is full before the first error is met.
SinkFullFirst == ser.output.bounded /\ Len(WrittenBeforeError) > ser.output.cap

\* C21: the first error the traversal meets, at any depth, ends the encode
\* and is what to_writer returns, with its kind and payload and no wrapping;
\* the output is exactly what precedes the failing key or value, and nothing
\* after it is written. (A bounded sink that fills up earlier fails first.)
Thm_C21 ==
    (Done /\ MeetsError) =>
        IF SinkFullFirst
        THEN /\ Result = [kind |-> "Fmt", got |-> ""]
             /\ IsPrefix(Output, WrittenBeforeError) /\ Output # WrittenBeforeError
        ELSE /\ Result = Sites(Shape)[1]
             /\ Output = WrittenBeforeError
\* A record whose first field holds [404, {"..":["a \"b\"", <fails>, null],
\* "id": true}] returned the adapter's message after writing up to the comma
\* before the failing element, and not the second field.
Wit_C21 ==
    /\ Done /\ Shape.t = "struct" /\ Len(Shape.pairs) = 2
    /\ Shape.pairs[1].value.t = "seq" /\ Len(Shape.pairs[1].value.items) = 2
    /\ Sites(Shape) = <<[kind |-> "Message", got |-> "boom"]>>
    /\ Result = [kind |-> "Message", got |-> "boom"]
    /\ Len(Output) > 40
    /\ EndsWith(Output, <<37, 50, 50, 37, 50, 67>>)
    /\ Count(Output, 38) = 0

RECURSIVE HasOmitted(_)
\* v is, or holds at some depth, a record or struct variant with an omitted
\* field.
HasOmitted(v) ==
    CASE v.t \in {"some", "newtype_struct", "newtype_variant"} -> HasOmitted(v.inner)
      [] v.t \in {"seq", "tuple", "tuple_struct", "tuple_variant"} ->
            \E i \in 1..Len(v.items) : HasOmitted(v.items[i])
      [] v.t = "map" -> \E i \in 1..Len(v.pairs) : HasOmitted(v.pairs[i].value)
      [] v.t \in {"struct", "struct_variant"} ->
            \E i \in 1..Len(v.pairs) :
                v.pairs[i].value.t = "skipped" \/ HasOmitted(v.pairs[i].value)
      [] OTHER -> FALSE
RECURSIVE Without(_)
\* The same value declared without its omitted fields.
Without(v) ==
    CASE v.t \in {"some", "newtype_struct", "newtype_variant"} ->
            [v EXCEPT !.inner = Without(v.inner)]
      [] v.t \in {"seq", "tuple", "tuple_struct", "tuple_variant"} ->
            [v EXCEPT !.items = [i \in 1..Len(v.items) |-> Without(v.items[i])]]
      [] v.t = "map" ->
            [v EXCEPT !.pairs =
                [i \in 1..Len(v.pairs) |->
                    [key |-> v.pairs[i].key, value |-> Without(v.pairs[i].value)]]]
      [] v.t \in {"struct", "struct_variant"} ->
            LET kept == SelectSeq(v.pairs, LAMBDA p : p.value.t # "skipped")
            IN  [v EXCEPT !.pairs =
                    [i \in 1..Len(kept) |->
                        [key |-> kept[i].key, value |-> Without(kept[i].value)]]]
      [] OTHER -> v
\* No "&" stands first, last or next to another "&".
NoStrayAmpersand(out) ==
    /\ out # <<>> => (out[1] # 38 /\ out[Len(out)] # 38)
    /\ \A i \in 1..(Len(out) - 1) : ~(out[i] = 38 /\ out[i + 1] = 38)

\* C22: a record (or struct variant) with omitted fields encodes to what the
\* same record declared without them encodes to, wherever the omitted fields
\* stand; a root record gets one "=" per remaining field and no leading,
\* trailing or doubled "&".
Thm_C22 ==
    (Done /\ Unbounded /\ Shape.t \in {"struct", "struct_variant"}
          /\ HasOmitted(Shape) /\ ~Fails(Shape) /\ KeysPlain(Shape)) =>
        /\ Result = [kind |-> "Ok", got |-> ""]
        /\ Output = FormText(Without(Shape))
        /\ NoStrayAmpersand(Output)
        /\ Shape.t = "struct" =>
              LET n == Len(Without(Shape).pairs)
              IN  /\ Count(Output, 61) = n
                  /\ Count(Output, 38) = IF n = 0 THEN 0 ELSE n - 1
\* The record {id: 404, k=& omitted, id: 404} gave id=404&id=404.
Wit_C22 ==
    /\ Succeeded
    /\ Shape = StructOf(<<Pair(K_id, IntOf("u32", 404)), Pair(K_sep, Skipped),
                          Pair(K_id, IntOf("u32", 404))>>)
    /\ Output = <<105, 100, 61, 52, 48, 52, 38, 105, 100, 61, 52, 48, 52>>

Thm_C24 ==
    /\ (Len(calls) >= 3 /\ ~calls[1].sink.bounded) =>
          /\ calls[3].ok = calls[1].ok
          /\ calls[3].err = calls[1].err
          /\ calls[3].ok => calls[3].val = calls[1].out
    /\ Len(calls) >= 4 =>
          /\ calls[4].ok = calls[3].ok
          /\ calls[4].err = calls[3].err
          /\ calls[4].ok => calls[4].val = RefUtf8(calls[3].val)
    /\ Len(calls) >= 5 =>
          /\ calls[5].ok <=>
                /\ calls[3].ok
                /\ ~calls[5].sink.bounded \/ Len(calls[3].val) <= calls[5].sink.cap
          /\ calls[5].ok => calls[5].out = calls[3].val
          /\ ~calls[5].ok => calls[5].err = [kind |-> "fmt::Error", got |-> ""]
\* All five calls returned Ok for a value whose output holds percent
\* triplets, and display wrote to a sink that held text already.
Wit_C24 ==
    /\ Len(calls) = 5 /\ calls[3].ok /\ calls[5].ok
    /\ calls[1].sink.pre = <<>> /\ calls[5].sink.pre # <<>>
    /\ Count(calls[3].val, 37) >= 3
    /\ calls[4].val = calls[3].val /\ calls[5].out = calls[3].val
    /\ calls[1].out = calls[3].val

\* What the escaping writer is to emit for a text, character by character: a
\* quote, a backslash or a control character gives %5C and the
\* percent-encoded body of its escape sequence, any other character its
\* percent-encoding.
EscapedPercent(s) ==
    Concat([i \in 1..Len(s) |->
               IF s[i] = 34 \/ s[i] = 92 \/ s[i] < 32
               THEN <<37, 53, 67>> \o RefPercent(Tail(RefEscapeChar(s[i])))
               ELSE RefPercent(<<s[i]>>)])
\* The root is the record {id: [s]} for a string s.
IsStringProbe ==
    /\ Shape.t = "struct" /\ Len(Shape.pairs) = 1 /\ Shape.pairs[1].key = K_id
    /\ Shape.pairs[1].value.t = "seq" /\ Len(Shape.pairs[1].value.items) = 1
    /\ Shape.pairs[1].value.items[1].t = "str"
\* The root is the record {id: {k: null}} for a key k.
IsKeyProbe ==
    /\ Shape.t = "struct" /\ Len(Shape.pairs) = 1 /\ Shape.pairs[1].key = K_id
    /\ Shape.pairs[1].value.t = "map" /\ Len(Shape.pairs[1].value.pairs) = 1
    /\ Shape.pairs[1].value.pairs[1].value.t = "none"
ProbeKey == Shape.pairs[1].value.pairs[1].key

Tokens(out) ==
    LET at == SelectSeq([i \in 1..Len(out) |-> i], LAMBDA i : out[i] = 37)
    IN  [k \in 1..Len(at) |->
            [pos |-> at[k], code |-> <<out[at[k] + 1], out[at[k] + 2]>>]]
\* What a scan reports for a text whose brackets do not match.
Unbalanced == <<[open |-> 0, commas |-> 0]>>
RECURSIVE Scan(_, _, _, _, _)
\* Reads the triples from the i-th on. stack holds the containers that are
\* open, innermost last, each with the commas seen at its level; in_string
\* says a %22 has opened a string. Reports the containers in the order they
\* close, each with its opening bracket and its commas. Inside a string only
\* %5C (which takes the triple right after it as its body) and the closing
\* %22 are read; outside every container nothing but brackets is.
Scan(toks, i, stack, in_string, closed) ==
    IF i > Len(toks)
    THEN IF stack = <<>> /\ ~in_string THEN closed ELSE Unbalanced
    ELSE LET code == toks[i].code
             depth == Len(stack)
         IN  IF in_string
             THEN IF code = <<53, 67>>
                  THEN IF i < Len(toks) /\ toks[i + 1].pos = toks[i].pos + 3
                       THEN Scan(toks, i + 2, stack, TRUE, closed)
                       ELSE Scan(toks, i + 1, stack, TRUE, closed)
                  ELSE Scan(toks, i + 1, stack, code # <<50, 50>>, closed)
             ELSE IF code = <<55, 66>> \/ code = <<53, 66>>
             THEN Scan(toks, i + 1, Append(stack, [open |-> code, commas |-> 0]),
                       FALSE, closed)
             ELSE IF code = <<55, 68>> \/ code = <<53, 68>>
             THEN IF depth = 0 \/ stack[depth].open # <<code[1], 66>>
                  THEN Unbalanced
                  ELSE Scan(toks, i + 1, SubSeq(stack, 1, depth - 1), FALSE,
                            Append(closed, stack[depth]))
             ELSE IF depth = 0
             THEN Scan(toks, i + 1, stack, FALSE, closed)
             ELSE IF code = <<50, 67>>
             THEN Scan(toks, i + 1,
                       [stack EXCEPT ![depth].commas = stack[depth].commas + 1],
                       FALSE, closed)
             ELSE Scan(toks, i + 1, stack, code = <<50, 50>>, closed)
\* An array or an object of n members: its bracket and n - 1 commas.
Container(open, n) == <<[open |-> open, commas |-> IF n = 0 THEN 0 ELSE n - 1]>>
RECURSIVE Containers(_)
\* The containers of a value's JSON text in the order they close: the
\* members' before their parent's; a tuple variant or a struct variant is an
\* array or an object inside the one-member object that names it.
Containers(v) ==
    LET array == <<53, 66>>
        object == <<55, 66>>
    IN  CASE v.t \in {"some", "newtype_struct"} -> Containers(v.inner)
          [] v.t = "bytes" -> Container(array, Len(v.bytes))
          [] v.t \in {"seq", "tuple", "tuple_struct"} ->
                Concat([i \in 1..Len(v.items) |-> Containers(v.items[i])])
                \o Container(array, Len(v.items))
          [] v.t = "map" ->
                Concat([i \in 1..Len(v.pairs) |-> Containers(v.pairs[i].value)])
                \o Container(object, Len(v.pairs))
          [] v.t = "struct" ->
                LET members == SelectSeq(v.pairs, LAMBDA p : p.value.t # "skipped")
                IN  Concat([i \in 1..Len(members) |-> Containers(members[i].value)])
                    \o Container(object, Len(members))
          [] v.t = "newtype_variant" -> Containers(v.inner) \o Container(object, 1)
          [] v.t = "tuple_variant" ->
                Containers([t |-> "seq", items |-> v.items]) \o Container(object, 1)
          [] v.t = "struct_variant" ->
                Containers([t |-> "struct", pairs |-> v.pairs]) \o Container(object, 1)
          [] OTHER -> <<>>
\* No key of the root and no bare string value of it holds a bracket.
BareTextsHoldNoBracket ==
    \A i \in 1..Len(RootPairs) :
        LET k == RefKeyText(RootPairs[i].key)
            v == Unwrapped(RootPairs[i].value)
            s == IF v.t = "str" THEN v.s
                 ELSE IF v.t = "char" THEN <<v.c>>
                 ELSE IF v.t = "unit_variant" THEN v.variant
                 ELSE <<>>
        IN  \A j \in 1..Len(k \o s) : (k \o s)[j] \notin {91, 93, 123, 125}

\* C26: the JSON text of the field values of a map or a record is balanced:
\* every %7B or %5B is closed by the matching %7D or %5D, innermost first, a
\* nested tuple variant or struct variant opens two levels and closes both,
\* and a container of n members has n - 1 commas at its level (none when it
\* is empty).
\* An empty array is %5B%5D and an empty object %7B%7D.
Thm_C26 ==
    /\ (Succeeded /\ IsPairsRoot /\ BareTextsHoldNoBracket) =>
          Scan(Tokens(Output), 1, <<>>, FALSE, <<>>) =
              Concat([i \in 1..Len(RootPairs) |-> Containers(RootPairs[i].value)])
    /\ (Succeeded /\ Shape = [t |-> "struct",
                               pairs |-> <<[key |-> K_id,
                                            value |-> [t |-> "seq", items |-> <<>>]]>>]) =>
          Output = <<105, 100, 61, 37, 53, 66, 37, 53, 68>>
    /\ (Succeeded /\ Shape \in {[t |-> "struct",
                                  pairs |-> <<[key |-> K_id, value |-> [t |-> s, pairs |-> <<>>]]>>] :
                                    s \in {"map", "struct"}}) =>
          Output = <<105, 100, 61, 37, 55, 66, 37, 55, 68>>
\* The field id = K("id", V{}) for a tuple variant K and a struct variant V
\* without fields was written: four containers, closed innermost first, one
\* comma in the array.
Wit_C26 ==
    /\ Succeeded
    /\ Shape = StructOf(<<Pair(K_id, TupleVariant(K_esc, <<UnitVariant(K_id),
                                                           StructVariant(K_sep, <<>>)>>))>>)
    /\ Scan(Tokens(Output), 1, <<>>, FALSE, <<>>) =
          <<[open |-> <<55, 66>>, commas |-> 0], [open |-> <<55, 66>>, commas |-> 0],
            [open |-> <<53, 66>>, commas |-> 1], [open |-> <<55, 66>>, commas |-> 0]>>

RECURSIVE Layered(_)
\* The bytes of a nested value, put together from its parts with no regard
\* to how deep it stands: each structural character as its one literal
\* triple, each string between %22 escaped once and percent-encoded once,
\* every other scalar as its plain literal.
Layered(v) ==
    LET quote == <<37, 50, 50>>
        colon == <<37, 51, 65>>
        comma == <<37, 50, 67>>
        array(items) ==
            <<37, 53, 66>> \o JoinWith(items, comma) \o <<37, 53, 68>>
        object(members) ==
            <<37, 55, 66>> \o JoinWith(members, comma) \o <<37, 55, 68>>
        text(s) == quote \o EscapedPercent(s) \o quote
        fields(pairs) ==
            LET members == SelectSeq(pairs, LAMBDA p : p.value.t # "skipped")
            IN  object([i \in 1..Len(members) |->
                           text(members[i].key) \o colon \o Layered(members[i].value)])
    IN  CASE v.t \in {"some", "newtype_struct"} -> Layered(v.inner)
          [] v.t = "str" -> text(v.s)
          [] v.t = "char" -> text(<<v.c>>)
          [] v.t = "unit_variant" -> text(v.variant)
          [] v.t = "bytes" ->
                array([i \in 1..Len(v.bytes) |-> RefJson([t |-> "int", n |-> v.bytes[i]])])
          [] v.t \in {"seq", "tuple", "tuple_struct"} ->
                array([i \in 1..Len(v.items) |-> Layered(v.items[i])])
          [] v.t = "map" ->
                object([i \in 1..Len(v.pairs) |->
                           text(RefKeyText(v.pairs[i].key)) \o colon
                           \o Layered(v.pairs[i].value)])
          [] v.t = "struct" -> fields(v.pairs)
          [] v.t = "newtype_variant" ->
                object(<<text(v.variant) \o colon \o Layered(v.inner)>>)
          [] v.t = "tuple_variant" ->
                object(<<text(v.variant) \o colon
                         \o array([i \in 1..Len(v.items) |-> Layered(v.items[i])])>>)
          [] v.t = "struct_variant" ->
                object(<<text(v.variant) \o colon \o fields(v.pairs)>>)
          [] OTHER -> RefJson(v)
RECURSIVE NestingDepth(_)
\* How many containers stand around the innermost part of a value.
NestingDepth(v) ==
    LET deepest(vs) ==
            IF vs = <<>> THEN 0
            ELSE CHOOSE d \in {NestingDepth(vs[i]) : i \in 1..Len(vs)} :
                     \A i \in 1..Len(vs) : NestingDepth(vs[i]) <= d
    IN  CASE v.t \in {"some", "newtype_struct"} -> NestingDepth(v.inner)
          [] v.t \in {"seq", "tuple", "tuple_struct"} -> 1 + deepest(v.items)
          [] v.t \in {"map", "struct"} ->
                1 + deepest([i \in 1..Len(v.pairs) |-> v.pairs[i].value])
          [] v.t = "newtype_variant" -> 1 + NestingDepth(v.inner)
          [] v.t = "tuple_variant" -> 2 + deepest(v.items)
          [] v.t = "struct_variant" ->
                2 + deepest([i \in 1..Len(v.pairs) |-> v.pairs[i].value])
          [] v.t = "bytes" -> 1
          [] OTHER -> 0
\* The text holds a percent sign.
HoldsPercent(s) == \E i \in 1..Len(s) : s[i] = 37
\* The triple %25 occurs in the text.
HoldsEncodedPercent(out) ==
    \E i \in 1..(Len(out) - 2) : out[i] = 37 /\ out[i + 1] = 50 /\ out[i + 2] = 53

\* C27: the writer layers do not add up with depth. The value segment of a
\* field that is an array, an object or a variant is put together from the
\* same bytes for each part whatever its depth: strings escaped once and
\* percent-encoded once, %7B %7D %5B %5D %2C %3A %22 each written once as
\* that literal, for the members that follow a nested value as for those
\* before it; so no percent sign of the output is itself encoded as %25.
Thm_C27 ==
    (Succeeded /\ IsPairsRoot) =>
        /\ \A i \in 1..Len(RootPairs) :
              NestingDepth(RootPairs[i].value) >= 1 =>
                  LET bytes == Layered(RootPairs[i].value)
                  IN  \E j \in 0..(Len(Output) - Len(bytes)) :
                          SubSeq(Output, j + 1, j + Len(bytes)) = bytes
        /\ (Len(RootPairs) = 1 /\ NestingDepth(RootPairs[1].value) >= 1) =>
              Output = RefPercent(RefKeyText(RootPairs[1].key)) \o <<61>>
                       \o Layered(RootPairs[1].value)
        /\ (\A i \in 1..Len(RootPairs) :
                ~HoldsPercent(RefKeyText(RootPairs[i].key))
                /\ ~HoldsPercent(RefJson(RootPairs[i].value))) =>
              ~HoldsEncodedPercent(Output)
\* The field id = K(["a \"b\""], ["a \"b\""]) of a tuple variant K was
\* written: the two arrays, at depth three, as the same bytes, the second
\* after a comma written once.
Wit_C27 ==
    /\ Succeeded
    /\ Shape = StructOf(<<Pair(K_id, TupleVariant(K_sep, <<SeqOf(<<StrOf(S_quoted)>>),
                                                          SeqOf(<<StrOf(S_quoted)>>)>>))>>)
    /\ NestingDepth(Shape.pairs[1].value) = 3
    /\ Output = <<105, 100, 61, 37, 55, 66, 37, 50, 50, 107, 37, 51, 68, 37, 50, 54,
                  37, 50, 50, 37, 51, 65, 37, 53, 66>>
                \o <<37, 53, 66, 37, 50, 50, 97, 37, 50, 48, 37, 53, 67, 37, 50, 50, 98,
                     37, 53, 67, 37, 50, 50, 37, 50, 50, 37, 53, 68>>
                \o <<37, 50, 67>>
                \o <<37, 53, 66, 37, 50, 50, 97, 37, 50, 48, 37, 53, 67, 37, 50, 50, 98,
                     37, 53, 67, 37, 50, 50, 37, 50, 50, 37, 53, 68>>
                \o <<37, 53, 68, 37, 55, 68>>

\* The root is the map {k: null} for a key k.
IsFormKeyProbe ==
    /\ Shape.t = "map" /\ Len(Shape.pairs) = 1 /\ Shape.pairs[1].value.t = "none"
\* The text has no character that JSON escapes.
NeedsNoEscape(s) == \A i \in 1..Len(s) : s[i] # 34 /\ s[i] # 92 /\ s[i] >= 32

\* C28: a key is written by one rule in both places and only the quoting
\* and escaping differ. As the key of a nested object it stands between two
\* %22, its text JSON-escaped and percent-encoded, with %3A after it, also
\* when it is an integer, a boolean or a float (1 gives %221%22, true gives
\* %22true%22); as a form key of the root the same key is its text
\* percent-encoded, bare, with "=" after it. The two texts are the same when
\* nothing in the key needs escaping.
Thm_C28 ==
    /\ (Succeeded /\ IsKeyProbe) =>
          /\ Output = <<105, 100, 61, 37, 55, 66, 37, 50, 50>>
                      \o EscapedPercent(RefKeyText(ProbeKey))
                      \o <<37, 50, 50, 37, 51, 65, 110, 117, 108, 108, 37, 55, 68>>
          /\ NeedsNoEscape(RefKeyText(ProbeKey)) =>
                Output = <<105, 100, 61, 37, 55, 66, 37, 50, 50>>
                         \o RefPercent(RefKeyText(ProbeKey))
                         \o <<37, 50, 50, 37, 51, 65, 110, 117, 108, 108, 37, 55, 68>>
    /\ (Succeeded /\ IsFormKeyProbe) =>
          Output = RefPercent(RefKeyText(Shape.pairs[1].key)) \o <<61, 110, 117, 108, 108>>
\* The object {1: null} nested in the field id was written with its integer
\* key between quotes: id=%7B%221%22%3Anull%7D.
Wit_C28 ==
    /\ Succeeded /\ IsKeyProbe
    /\ ProbeKey = [t |-> "int", w |-> "i32", n |-> 1]
    /\ Output = <<105, 100, 61, 37, 55, 66, 37, 50, 50, 49, 37, 50, 50, 37, 51, 65,
                  110, 117, 108, 108, 37, 55, 68>>

\* The value is a string, a char or a unit variant, maybe inside Options and
\* newtype structs.
IsText(v) == Unwrapped(v).t \in {"str", "char", "unit_variant"}
\* The text of such a value.
TextOf(v) ==
    LET u == Unwrapped(v)
    IN  IF u.t = "str" THEN u.s ELSE IF u.t = "char" THEN <<u.c>> ELSE u.variant
\* The value is an array of one element, maybe inside Options and newtype
\* structs.
IsArrayOfOne(v) == Unwrapped(v).t = "seq" /\ Len(Unwrapped(v).items) = 1

=============================================================================
